---- MODULE Spec2Model ----
(***************************************************************************)
(* Four-digit guessing game: feedback, candidate filtering, the four       *)
(* guess-selection strategies, the single-game simulator, the interactive  *)
(* AI game and the chunked benchmark harness.                              *)
(*                                                                         *)
(* The code space of generateAllCodes is scaled by MaxDigit (the source    *)
(* loops every position over 0..9); every other number is the source's.    *)
(***************************************************************************)
EXTENDS Integers, Sequences, FiniteSets, Bags, TLC

\* ------------------------------------------------------------------ state
\* simulateGame (one call of it)
VARIABLES
  simStrategy,     \* the strategy argument
  simTarget,       \* the target argument
  simAllCodes,     \* the allCodes argument
  simCandidates,   \* let candidates
  simSizes,        \* candidates.length at the start of each round so far
  simGuesses,      \* const guesses, the strings pushed so far
  simRound,        \* the loop counter round
  simOutcome,      \* "idle", "running", or how the call returned
  simSteps         \* the returned GameResult.steps (0 until it returns)

gameVars == << simStrategy, simTarget, simAllCodes, simCandidates, simSizes,
              simGuesses, simRound, simOutcome, simSteps >>

\* one call of a pure function
VARIABLES
  fnOp,            \* the function called ("" when none)
  fnArgs,          \* its arguments
  fnDone,          \* whether it has returned
  fnResult         \* what it returned

fnVars == << fnOp, fnArgs, fnDone, fnResult >>

\* AIGuessesGame (the component's state, and the player's secret)
VARIABLES
  aiTarget,        \* the code the player has in mind
  aiStarted,       \* useState started
  aiCandidates,    \* useState candidates
  aiHistory,       \* useState history, the GameRounds
  aiCurrentGuess,  \* useState currentGuess (Undefined for null)
  aiGameOver,      \* useState gameOver
  aiTruthful,      \* every feedback entered so far was the true one
  aiSubmits,       \* submitFeedback calls so far
  aiLastFb         \* fb of the latest submitFeedback call (Undefined: none)

aiVars == << aiTarget, aiStarted, aiCandidates, aiHistory, aiCurrentGuess,
            aiGameOver, aiTruthful, aiSubmits, aiLastFb >>

\* runBenchmarkAsync (one call of it: its closure and its callbacks)
VARIABLES
  config,          \* the config argument
  targets,         \* const targets
  results,         \* const results
  cancelled,       \* let cancelled
  strategyIdx,     \* let strategyIdx
  gameIdx,         \* let gameIdx
  stepResults,     \* let stepResults
  sampleGames,     \* let sampleGames
  distribution,    \* let distribution
  benchStatus,     \* "idle", "hung", "running", "thrown" or "complete"
  framePending,    \* a requested animation frame has not fired yet
  frameRequests,   \* requestAnimationFrame calls so far
  progressCalls,   \* the arguments of the onProgress calls so far
  completeCalls,   \* the arguments of the onComplete calls so far
  gameCalls,       \* the simulateGame calls so far: strategy and target
  cancelCalled     \* cancel() of the returned handle has been called

benchVars == << config, targets, results, cancelled, strategyIdx, gameIdx,
               stepResults, sampleGames, distribution, benchStatus,
               framePending, frameRequests, progressCalls, completeCalls,
               gameCalls, cancelCalled >>

\* generateRandomTargets (two calls of it, one after the other, with the
\* same arguments)
VARIABLES
  genCount,        \* the count argument
  genSeed,         \* the seed argument
  genS,            \* let s of the call that runs
  genTargets,      \* const targets of the call that runs
  genReturned      \* the lists returned so far

genVars == << genCount, genSeed, genS, genTargets, genReturned >>

\* The sampling rule of processNextChunk, over the games of one strategy
VARIABLES
  smpPattern,      \* the step counts the games return, repeated in turn
  smpGames,        \* the results of the games played so far
  smpSamples       \* let sampleGames

sampleVars == << smpPattern, smpGames, smpSamples >>

\* A second call of runBenchmarkAsync beside the one held in the harness
\* variables
VARIABLES
  other,           \* the closure and callbacks of the call that is not held
  current          \* which of the two calls the harness variables hold

twoVars == << other, current >>

vars == << gameVars, fnVars, aiVars, benchVars, genVars, sampleVars,
           twoVars >>

\* What each component leaves alone: the other components.
notGame == << fnVars, aiVars, benchVars, genVars,
              sampleVars, twoVars >>
notFn == << gameVars, aiVars, benchVars, genVars,
            sampleVars, twoVars >>
notAi == << gameVars, fnVars, benchVars, genVars,
            sampleVars, twoVars >>
notBench == << gameVars, fnVars, aiVars, genVars,
               sampleVars, twoVars >>
notGen == << gameVars, fnVars, aiVars, benchVars,
             sampleVars, twoVars >>
notSample == << gameVars, fnVars, aiVars, benchVars, genVars, twoVars >>

\* ---------------------------------------------------------------- bounds
\* Largest digit generateAllCodes enumerates (9 in the source).
MaxDigit == 1

\* Longest allCodes list handed to simulateGame outside the benchmark.
MaxAllCodes == 2

\* ------------------------------------------------------ program constants
\* A code has four positions.
CodeLen == 4
\* simulateGame's default step cap.
DefaultMaxSteps == 20

Digits == 0..MaxDigit
Positions == 1..CodeLen
Feedbacks == 0..CodeLen

\* The value of an absent array element / a switch falling through.
Undefined == << >>

StrategyNames == {"frequency-probe", "max-entropy", "minimax", "hybrid"}

\* The lists of at most n members of S.
RECURSIVE SeqsUpTo(_, _)
SeqsUpTo(S, n) ==
  IF n = 0 THEN { << >> }
  ELSE LET shorter == SeqsUpTo(S, n - 1)
       IN  shorter \cup { Append(t, x) : t \in shorter, x \in S }

Min2(a, b) == IF a < b THEN a ELSE b
Max2(a, b) == IF a > b THEN a ELSE b

\* ------------------------------------------------------------ engine.ts

\* gCount[d] / tCount[d]: how often digit d occurs in a code.
digitCount(code, d) ==
  (IF code[1] = d THEN 1 ELSE 0) + (IF code[2] = d THEN 1 ELSE 0)
    + (IF code[3] = d THEN 1 ELSE 0) + (IF code[4] = d THEN 1 ELSE 0)

minCount(guess, target, d) == Min2(digitCount(guess, d), digitCount(target, d))

\* A plausible slip: the positions where the two codes agree.
computeFeedbackPositions(guess, target) ==
  Cardinality({ i \in Positions : guess[i] = target[i] })

\* A plausible slip: counts the guess positions whose digit occurs in target.
computeFeedbackIncludes(guess, target) ==
  Cardinality({i \in Positions : \E j \in Positions : target[j] = guess[i]})

\* The loop over the ten buckets d = 0..9, written out.
computeFeedback(guess, target) ==
  minCount(guess, target, 0) + minCount(guess, target, 1)
    + minCount(guess, target, 2) + minCount(guess, target, 3)
    + minCount(guess, target, 4) + minCount(guess, target, 5)
    + minCount(guess, target, 6) + minCount(guess, target, 7)
    + minCount(guess, target, 8) + minCount(guess, target, 9)

isExactMatch(guess, target) ==
  \A i \in Positions : guess[i] = target[i]

\* generateAllCodes: the code space in lexicographic order.
NumCodes == (MaxDigit + 1) * (MaxDigit + 1) * (MaxDigit + 1) * (MaxDigit + 1)

codeAt(k) ==
  LET b == MaxDigit + 1
  IN  << (k \div (b * b * b)) % b, (k \div (b * b)) % b, (k \div b) % b, k % b >>

generateAllCodes == [k \in 1..NumCodes |-> codeAt(k - 1)]

AllCodes == generateAllCodes

CodeSet == {AllCodes[k] : k \in 1..NumCodes}

\* Position (1-based) of a code of the code space in AllCodes.
codeIndex(code) ==
  LET b == MaxDigit + 1
  IN  1 + code[4] + b * (code[3] + b * (code[2] + b * code[1]))

inCodeSpace(code) == \A i \in Positions : code[i] <= MaxDigit

\* computeFeedback tabulated over the code space (evaluated once); feedback
\* is computeFeedback read from the table where the table has the pair.
FeedbackTable ==
  [i \in 1..NumCodes |-> [j \in 1..NumCodes |->
      computeFeedback(AllCodes[i], AllCodes[j])]]

feedback(guess, target) ==
  IF inCodeSpace(guess) /\ inCodeSpace(target)
  THEN FeedbackTable[codeIndex(guess)][codeIndex(target)]
  ELSE computeFeedback(guess, target)

\* A plausible slip: keeps the candidates scoring at least the feedback.
filterCandidatesAtLeast(candidates, guess, fb) ==
  SelectSeq(candidates, LAMBDA c : feedback(guess, c) >= fb)

\* candidates.filter(c => computeFeedback(guess, c) === feedback)
filterCandidates(candidates, guess, fb) ==
  SelectSeq(candidates, LAMBDA c : feedback(guess, c) = fb)

\* Characters are one-character strings; a string is a sequence of them.
digitChar(d) ==
  CASE d = 0 -> "0" [] d = 1 -> "1" [] d = 2 -> "2" [] d = 3 -> "3"
    [] d = 4 -> "4" [] d = 5 -> "5" [] d = 6 -> "6" [] d = 7 -> "7"
    [] d = 8 -> "8" [] d = 9 -> "9"

\* code.join('')
codeToString(code) == << digitChar(code[1]), digitChar(code[2]),
                         digitChar(code[3]), digitChar(code[4]) >>

\* --------------------------------------------------- benchmark strategies

\* JavaScript array read: arr[i] with a 0-based index, undefined past the end.
at(arr, i) == IF i >= 0 /\ i < Len(arr) THEN arr[i + 1] ELSE Undefined

\* computePartitions: slot f + 1 holds the number of candidates whose
\* feedback is f (0 stands for a key the Map does not hold).
computePartitions(guess, candidates) ==
  LET fbs == << >> \o [j \in 1..Len(candidates) |->
                           feedback(guess, candidates[j])]
      size(f) == Cardinality({j \in 1..Len(candidates) : fbs[j] = f})
  IN  << size(0), size(1), size(2), size(3), size(4) >>

\* for (const v of partitions.values()) if (v > worst) worst = v
worstPartition(partitions) ==
  Max2(partitions[1], Max2(partitions[2], Max2(partitions[3],
       Max2(partitions[4], partitions[5]))))

\* Entropies are real numbers; the code only compares entropies of
\* partitions of one candidate set.  For a fixed total n,
\*    H = log2(n) - (1/n) * log2(PROD c^c)
\* so H1 > H2 exactly when PROD c1^c1 < PROD c2^c2.  computeEntropy yields
\* that product, as a little-endian sequence of limbs in base BigBase, and
\* entropyGreater compares two of them.  The initial bestEntropy of -1 is
\* below every entropy.
BigBase == 1000000

RECURSIVE bigCarry(_)
bigCarry(c) == IF c = 0 THEN << >> ELSE << c % BigBase >> \o bigCarry(c \div BigBase)

RECURSIVE bigMulFrom(_, _, _, _)
bigMulFrom(a, m, i, carry) ==
  IF i > Len(a) THEN bigCarry(carry)
  ELSE LET v == a[i] * m + carry
       IN  << v % BigBase >> \o bigMulFrom(a, m, i + 1, v \div BigBase)

RECURSIVE bigMulPow(_, _, _)
\* a * m^k, halving the exponent; the first half is a value before the
\* second half starts from it.
bigMulPow(a, m, k) ==
  IF k = 0 THEN a
  ELSE IF k = 1 THEN bigMulFrom(a, m, 1, 0)
  ELSE CHOOSE r \in { bigMulPow(half, m, k - k \div 2) :
                        half \in { bigMulPow(a, m, k \div 2) } } : TRUE

RECURSIVE bigLessFrom(_, _, _)
bigLessFrom(a, b, i) ==
  IF i = 0 THEN FALSE
  ELSE IF a[i] # b[i] THEN a[i] < b[i] ELSE bigLessFrom(a, b, i - 1)

bigLess(a, b) ==
  IF Len(a) # Len(b) THEN Len(a) < Len(b) ELSE bigLessFrom(a, b, Len(a))

RECURSIVE entropyFrom(_, _, _)
entropyFrom(partitions, f, acc) ==
  IF f > Len(partitions) THEN acc
  ELSE entropyFrom(partitions, f + 1, bigMulPow(acc, partitions[f], partitions[f]))

computeEntropy(partitions, total) == entropyFrom(partitions, 1, << 1 >>)

MinusOne == << >>

entropyGreater(entropy, bestEntropy) ==
  bestEntropy = MinusOne \/ bigLess(entropy, bestEntropy)

isCandidate(candidates, guess) ==
  \E j \in 1..Len(candidates) : candidates[j] = guess

\* frequencyProbeGuess: the fallback search over the strided candidates.
RECURSIVE probeLoop(_, _, _, _)
probeLoop(candidates, step, i, best) ==
  IF i >= Len(candidates) THEN best.bestGuess
  ELSE LET guess == candidates[i + 1]
           w == worstPartition(computePartitions(guess, candidates))
       IN  IF w < best.bestWorst
           THEN probeLoop(candidates, step, i + step,
                          [bestGuess |-> guess, bestWorst |-> w])
           ELSE probeLoop(candidates, step, i + step, best)

\* A plausible slip: of two candidates the last is returned.
frequencyProbeGuessLast(candidates, allCodes, round) ==
  LET n == Len(candidates)
      probeSequence == << <<0, 1, 2, 3>>, <<4, 5, 6, 7>>, <<8, 9, 0, 1>>,
                          <<2, 3, 4, 5>>, <<6, 7, 8, 9>> >>
  IN  IF round < Len(probeSequence) /\ n > 100 THEN probeSequence[round + 1]
      ELSE IF n <= 2 THEN at(candidates, n - 1)
      ELSE LET limit == Min2(n, 500)
               step == Max2(1, n \div limit)
           IN  probeLoop(candidates, step, 0,
                         [bestGuess |-> candidates[1], bestWorst |-> n])

frequencyProbeGuess(candidates, allCodes, round) ==
  LET n == Len(candidates)
      probeSequence == << <<0, 1, 2, 3>>, <<4, 5, 6, 7>>, <<8, 9, 0, 1>>,
                          <<2, 3, 4, 5>>, <<6, 7, 8, 9>> >>
  IN  IF round < Len(probeSequence) /\ n > 100 THEN probeSequence[round + 1]
      ELSE IF n <= 2 THEN at(candidates, 0)
      ELSE LET limit == Min2(n, 500)
               step == Max2(1, n \div limit)
           IN  probeLoop(candidates, step, 0,
                         [bestGuess |-> candidates[1], bestWorst |-> n])

RECURSIVE entropyLoop(_, _, _, _, _)
entropyLoop(candidates, searchPool, step, i, best) ==
  IF i >= Len(searchPool) THEN best.bestGuess
  ELSE LET guess == searchPool[i + 1]
           entropy == computeEntropy(computePartitions(guess, candidates),
                                     Len(candidates))
       IN  IF entropyGreater(entropy, best.bestEntropy)
           THEN entropyLoop(candidates, searchPool, step, i + step,
                            [bestGuess |-> guess, bestEntropy |-> entropy])
           ELSE entropyLoop(candidates, searchPool, step, i + step, best)

maxEntropyGuess(candidates, allCodes, round) ==
  LET n == Len(candidates)
  IN  IF n <= 2 THEN at(candidates, 0)
      ELSE LET searchPool == IF n <= 500 THEN allCodes ELSE candidates
               limit == Min2(Len(searchPool), IF n <= 200 THEN 5000 ELSE 2000)
               step == Max2(1, Len(searchPool) \div limit)
           IN  entropyLoop(candidates, searchPool, step, 0,
                           [bestGuess |-> candidates[1], bestEntropy |-> MinusOne])

\* A plausible slip: the tie-break for candidates left out (w < bestWorst
\* alone).
minimaxPassNoTie(candidates, searchPool, i, best) ==
  LET guess == searchPool[i + 1]
      w == worstPartition(computePartitions(guess, candidates))
      isCand == isCandidate(candidates, guess)
  IN  IF w < best.bestWorst
      THEN [bestGuess |-> guess, bestWorst |-> w, bestIsCandidate |-> isCand]
      ELSE best

\* One pass of the loop's body, at index i.
minimaxPass(candidates, searchPool, i, best) ==
  LET guess == searchPool[i + 1]
      w == worstPartition(computePartitions(guess, candidates))
      isCand == isCandidate(candidates, guess)
  IN  IF \/ w < best.bestWorst
         \/ (w = best.bestWorst /\ isCand /\ ~best.bestIsCandidate)
      THEN [bestGuess |-> guess, bestWorst |-> w, bestIsCandidate |-> isCand]
      ELSE best

\* The passes at i = lo, lo + step, lo + 2 * step, ... below hi, in that
\* order: those of the lower half of the range, then those of the upper
\* half from where the lower half ended.
RECURSIVE minimaxPasses(_, _, _, _, _, _)
minimaxPasses(candidates, searchPool, step, lo, hi, best) ==
  IF lo >= hi THEN best
  ELSE IF lo + step >= hi THEN minimaxPass(candidates, searchPool, lo, best)
  ELSE LET mid == lo + step * ((((hi - lo) + step - 1) \div step) \div 2)
       IN  CHOOSE v \in
             { minimaxPasses(candidates, searchPool, step, mid, hi, b) :
                 b \in { minimaxPasses(candidates, searchPool, step,
                                       lo, mid, best) } } : TRUE

\* for (let i = 0; i < searchPool.length; i += step) { ... } return bestGuess
minimaxLoop(candidates, searchPool, step, i, best) ==
  minimaxPasses(candidates, searchPool, step, i, Len(searchPool),
                best).bestGuess

minimaxSearch(candidates, allCodes) ==
  LET n == Len(candidates)
      searchPool == IF n <= 50 THEN allCodes ELSE candidates
      limit == Min2(Len(searchPool), IF n <= 50 THEN 5000 ELSE 2000)
      step == Max2(1, Len(searchPool) \div limit)
  IN  minimaxLoop(candidates, searchPool, step, 0,
                  [bestGuess |-> candidates[1], bestWorst |-> n,
                   bestIsCandidate |-> FALSE])

\* A plausible slip: the two-candidate shortcut left out (n <= 1).
minimaxGuessNoPair(candidates, allCodes, round) ==
  IF Len(candidates) <= 1 THEN at(candidates, 0)
  ELSE minimaxSearch(candidates, allCodes)

minimaxGuess(candidates, allCodes, round) ==
  IF Len(candidates) <= 2 THEN at(candidates, 0)
  ELSE minimaxSearch(candidates, allCodes)

hybridGuess(candidates, allCodes, round) ==
  LET n == Len(candidates)
      probes == << <<0, 1, 2, 3>>, <<4, 5, 6, 7>>, <<8, 9, 0, 1>> >>
  IN  IF round < 3 /\ n > 5000 THEN probes[round + 1]
      ELSE IF n <= 200 THEN minimaxGuess(candidates, allCodes, round)
      ELSE maxEntropyGuess(candidates, allCodes, round)

getGuess(strategy, candidates, allCodes, round) ==
  CASE strategy = "frequency-probe" -> frequencyProbeGuess(candidates, allCodes, round)
    [] strategy = "max-entropy" -> maxEntropyGuess(candidates, allCodes, round)
    [] strategy = "minimax" -> minimaxGuess(candidates, allCodes, round)
    [] strategy = "hybrid" -> hybridGuess(candidates, allCodes, round)
    [] OTHER -> Undefined

\* ----------------------------------------------------------- getSmartGuess
\* engine.ts: the guess and analysis.strategy of the returned object.  The
\* history only feeds the analysis text.
getSmartGuess(candidates, allCodes, round, history) ==
  LET n == Len(candidates)
      probes == << <<0, 1, 2, 3>>, <<4, 5, 6, 7>>, <<8, 9, 0, 1>> >>
  IN  IF n <= 1
      THEN [guess |-> IF at(candidates, 0) = Undefined THEN <<0, 0, 0, 0>>
                      ELSE at(candidates, 0),
            strategy |-> "unique-solution"]
      ELSE IF n = 2
      THEN [guess |-> at(candidates, 0), strategy |-> "direct"]
      ELSE IF round < 3 /\ n > 5000
      THEN [guess |-> probes[round + 1], strategy |-> "frequency-probe"]
      ELSE IF n <= 200
      THEN LET searchPool == IF n <= 50 THEN allCodes ELSE candidates
               limit == Min2(Len(searchPool), IF n <= 50 THEN 10000 ELSE 5000)
               step == Max2(1, Len(searchPool) \div limit)
           IN  [guess |-> minimaxLoop(candidates, searchPool, step, 0,
                            [bestGuess |-> candidates[1], bestWorst |-> n,
                             bestIsCandidate |-> TRUE]),
                strategy |-> "minimax"]
      ELSE IF n <= 1000
      THEN LET searchPool == IF n <= 500 THEN allCodes ELSE candidates
               limit == Min2(Len(searchPool), 3000)
               step == Max2(1, Len(searchPool) \div limit)
           IN  [guess |-> entropyLoop(candidates, searchPool, step, 0,
                            [bestGuess |-> candidates[1],
                             bestEntropy |-> MinusOne]),
                strategy |-> "max-entropy"]
      ELSE LET step == Max2(1, n \div 2000)
           IN  [guess |-> entropyLoop(candidates, candidates, step, 0,
                            [bestGuess |-> candidates[1],
                             bestEntropy |-> MinusOne]),
                strategy |-> "entropy-sampled"]

\* ------------------------------------------------------------ stringToCode
\* A string is a sequence of characters, a character a one-character
\* string.  Number(ch) of one character: a decimal digit is its value,
\* white space is 0 (the string trims to the empty string), anything else
\* is NaN.
NaN == [nan |-> TRUE, val |-> 0]
Num(v) == [nan |-> FALSE, val |-> v]
isNaN(x) == x.nan
Null == << "null" >>
WhiteSpace == {" ", "\t", "\n"}

Number(ch) ==
  CASE ch = "0" -> Num(0) [] ch = "1" -> Num(1) [] ch = "2" -> Num(2)
    [] ch = "3" -> Num(3) [] ch = "4" -> Num(4) [] ch = "5" -> Num(5)
    [] ch = "6" -> Num(6) [] ch = "7" -> Num(7) [] ch = "8" -> Num(8)
    [] ch = "9" -> Num(9)
    [] ch \in WhiteSpace -> Num(0)
    [] OTHER -> NaN

stringToCode(s) ==
  IF Len(s) # 4 THEN Null
  ELSE LET digits == [i \in 1..Len(s) |-> Number(s[i])]
       IN  IF \E i \in 1..Len(s) :
                 isNaN(digits[i]) \/ digits[i].val < 0 \/ digits[i].val > 9
           THEN Null
           ELSE [i \in 1..Len(s) |-> digits[i].val]

\* ------------------------------------------------------------ simulateGame
GameIdle ==
  /\ simStrategy = "" /\ simTarget = Undefined /\ simAllCodes = << >>
  /\ simCandidates = << >> /\ simSizes = << >>
  /\ simGuesses = << >> /\ simRound = 0 /\ simOutcome = "idle" /\ simSteps = 0

\* simulateGame(strategy, target, allCodes) entered, maxSteps defaulted:
\* the call processNextChunk makes, with the codes of generateAllCodes.
InitGame ==
  /\ simStrategy \in StrategyNames
  /\ simTarget \in CodeSet
  /\ simAllCodes = AllCodes
  /\ simCandidates = AllCodes
  /\ simSizes = << >>
  /\ simGuesses = << >>
  /\ simRound = 0
  /\ simOutcome = "running"
  /\ simSteps = 0

\* generateAllCodes with the digits of the source, 0 to 9.
SourceMaxDigit == 9

SourceCodes ==
  LET b == SourceMaxDigit + 1
  IN  [k \in 1..(b * b * b * b) |->
         << ((k - 1) \div (b * b * b)) % b, ((k - 1) \div (b * b)) % b,
            ((k - 1) \div b) % b, (k - 1) % b >>]

\* The targets of the games played over the codes of the source: the
\* codes of one repeated digit.
SourceTargets == { << d, d, d, d >> : d \in 0..SourceMaxDigit }

\* simulateGame('frequency-probe', target, generateAllCodes()) entered,
\* over the 10000 codes of the source.
InitSourceGame ==
  /\ simStrategy = "frequency-probe"
  /\ simTarget \in SourceTargets
  /\ simAllCodes = SourceCodes
  /\ simCandidates = SourceCodes
  /\ simSizes = << >>
  /\ simGuesses = << >>
  /\ simRound = 0
  /\ simOutcome = "running"
  /\ simSteps = 0

\* simulateGame(strategy, target, allCodes) entered with any non-empty
\* list of at most MaxAllCodes codes as allCodes: the function as its
\* signature admits it, the target in the list or not.
InitAnyGame ==
  /\ simStrategy \in StrategyNames
  /\ simTarget \in CodeSet
  /\ simAllCodes \in SeqsUpTo(CodeSet, MaxAllCodes) \ { << >> }
  /\ simCandidates = simAllCodes
  /\ simSizes = << >>
  /\ simGuesses = << >>
  /\ simRound = 0
  /\ simOutcome = "running"
  /\ simSteps = 0

\* A plausible slip: one round too many.
loopContinuesOneMore(round) == round <= DefaultMaxSteps

\* round < maxSteps
loopContinues(round) == round < DefaultMaxSteps

\* A plausible slip: the feedback counts the positions that agree, while
\* the filter compares multisets.
roundFeedbackPositions(guess, target) == computeFeedbackPositions(guess, target)

\* const fb = computeFeedback(guess, target)
roundFeedback(guess, target) == feedback(guess, target)

\* A plausible slip: a guess with all four digits right counts as the match.
roundMatchesDigits(guess, target) == computeFeedback(guess, target) = 4

\* if (isExactMatch(guess, target))
roundMatches(guess, target) == isExactMatch(guess, target)

\* The body of the for loop: the guess pushed, whether it matched, and
\* the candidates left when it did not.
simulateRound(strat, tgt, allCodes, cands, rnd) ==
  LET guess == getGuess(strat, cands, allCodes, rnd)
      exact == roundMatches(guess, tgt)
  IN  [guess |-> guess,
       exact |-> exact,
       filtered |-> IF exact THEN cands
                    ELSE filterCandidates(cands, guess,
                                          roundFeedback(guess, tgt))]

\* codeToString(undefined) throws.
TypeError == [error |-> "TypeError"]

\* simulateGame as one call: the GameResult, or the TypeError thrown when
\* getGuess has no case for the strategy.
RECURSIVE simulateFrom(_, _, _, _, _, _)
simulateFrom(strat, tgt, allCodes, cands, guesses, rnd) ==
  IF ~loopContinues(rnd)
  THEN [target |-> codeToString(tgt), steps |-> DefaultMaxSteps,
        guesses |-> guesses]
  ELSE IF strat \notin StrategyNames THEN TypeError
  ELSE CHOOSE result \in
         { LET pushed == Append(guesses, codeToString(r.guess))
           IN  IF r.exact
               THEN [target |-> codeToString(tgt), steps |-> rnd + 1,
                     guesses |-> pushed]
               ELSE IF Len(r.filtered) = 0
               THEN [target |-> codeToString(tgt), steps |-> DefaultMaxSteps,
                     guesses |-> pushed]
               ELSE simulateFrom(strat, tgt, allCodes, r.filtered, pushed,
                                 rnd + 1)
           : r \in { simulateRound(strat, tgt, allCodes, cands, rnd) } } : TRUE

simulateGame(strat, tgt, allCodes) ==
  simulateFrom(strat, tgt, allCodes, allCodes, << >>, 0)

\* One iteration of the for loop.
SimulateRound ==
  /\ simOutcome = "running"
  /\ loopContinues(simRound)
  /\ simSizes' = Append(simSizes, Len(simCandidates))
  /\ \E r \in { simulateRound(simStrategy, simTarget, simAllCodes,
                              simCandidates, simRound) } :
       /\ simGuesses' = Append(simGuesses, codeToString(r.guess))
       /\ IF r.exact
          THEN /\ simOutcome' = "won"
               /\ simSteps' = simRound + 1
               /\ UNCHANGED << simCandidates, simRound >>
          ELSE /\ simCandidates' = r.filtered
               /\ IF Len(r.filtered) = 0
                  THEN /\ simOutcome' = "empty"
                       /\ simSteps' = DefaultMaxSteps
                       /\ UNCHANGED simRound
                  ELSE /\ simRound' = simRound + 1
                       /\ UNCHANGED << simOutcome, simSteps >>
  /\ UNCHANGED << simStrategy, simTarget, simAllCodes >>
  /\ UNCHANGED notGame

\* The loop ran out: return { steps: maxSteps }.
SimulateCapped ==
  /\ simOutcome = "running"
  /\ ~loopContinues(simRound)
  /\ simOutcome' = "capped"
  /\ simSteps' = DefaultMaxSteps
  /\ UNCHANGED << simStrategy, simTarget, simAllCodes, simCandidates,
                  simSizes, simGuesses, simRound >>
  /\ UNCHANGED notGame

NextGame == SimulateRound \/ SimulateCapped

\* -------------------------------------------------------- analyzeKnowledge
\* null, where a number may stand (a number n stands as Num(n)).
NullValue == [null |-> TRUE]

\* uniqueDigitsInGuess === 1
isMonochromatic(guess) == Cardinality({ guess[i] : i \in Positions }) = 1

\* The digits array as first filled: nothing known of any digit.
initialDigits ==
  [d \in Digits |->
     [digit |-> d, confirmedCount |-> NullValue, minCount |-> 0, maxCount |-> 4]]

\* A plausible slip: confirmedCount is not set.
confirmDigitBoundsOnly(entry, fb) ==
  [digit |-> entry.digit, confirmedCount |-> entry.confirmedCount,
   minCount |-> fb, maxCount |-> fb]

\* digits[d].confirmedCount = fb; .minCount = fb; .maxCount = fb
confirmDigit(entry, fb) ==
  [digit |-> entry.digit, confirmedCount |-> Num(fb),
   minCount |-> fb, maxCount |-> fb]

\* A plausible slip: break in place of continue, the loop left at the first
\* round without feedback.
breakLoop(history, k) == Len(history) + 1

\* if (fb === null) continue: the loop goes on with the next round.
continueLoop(history, k) == k + 1

\* The loop over the rounds, from round k on: a round with a feedback
\* and an all-same-digit guess sets that digit's three counts.
RECURSIVE processRounds(_, _, _)
processRounds(history, k, digits) ==
  IF k > Len(history) THEN digits
  ELSE LET round == history[k]
       IN  IF round.feedback = NullValue
           THEN processRounds(history, continueLoop(history, k), digits)
           ELSE IF isMonochromatic(round.guess)
           THEN processRounds(history, k + 1,
                  [digits EXCEPT ![round.guess[1]] =
                     confirmDigit(@, round.feedback.val)])
           ELSE processRounds(history, k + 1, digits)

\* knownSum: the confirmed counts of the digits from d on, added up.
RECURSIVE knownSumFrom(_, _)
knownSumFrom(digits, d) ==
  IF d > MaxDigit THEN 0
  ELSE (IF digits[d].confirmedCount = NullValue THEN 0
        ELSE digits[d].confirmedCount.val) + knownSumFrom(digits, d + 1)

\* A plausible slip: the digits not confirmed are confirmed absent whatever
\* the remaining slots.
zeroUnknownsAlways(digits, remainingSlots) ==
  [d \in Digits |->
     IF digits[d].confirmedCount = NullValue
     THEN [digit |-> d, confirmedCount |-> Num(0), minCount |-> 0, maxCount |-> 0]
     ELSE digits[d]]

\* if (remainingSlots === 0): the digits not confirmed are confirmed absent.
zeroUnknowns(digits, remainingSlots) ==
  IF remainingSlots = 0
  THEN [d \in Digits |->
          IF digits[d].confirmedCount = NullValue
          THEN [digit |-> d, confirmedCount |-> Num(0),
                minCount |-> 0, maxCount |-> 0]
          ELSE digits[d]]
  ELSE digits

\* maxCount of the digits not confirmed, capped by the remaining slots.
capUnknowns(digits, remainingSlots) ==
  [d \in Digits |->
     IF digits[d].confirmedCount = NullValue
     THEN [digits[d] EXCEPT !.maxCount = Min2(@, remainingSlots)]
     ELSE digits[d]]

\* A plausible slip: the remaining slots are not looked at.
compositionKnownNoSlots(unknownDigits, remainingSlots) ==
  Len(unknownDigits) = 0

\* unknownDigits.length === 0 && remainingSlots === 0
compositionKnown(unknownDigits, remainingSlots) ==
  Len(unknownDigits) = 0 /\ remainingSlots = 0

\* The digits 0, 1, ... in the order the loops visit them.
digitOrder == [i \in 1..(MaxDigit + 1) |-> i - 1]

\* analyzeKnowledge(history); the summary text is left out.
analyzeKnowledge(history) ==
  LET seen == processRounds(history, 1, initialDigits)
      knownSum == knownSumFrom(seen, 0)
      remainingSlots == 4 - knownSum
      capped == capUnknowns(zeroUnknowns(seen, remainingSlots), remainingSlots)
      isNull(d) == capped[d].confirmedCount = NullValue
      confirmedDigits ==
        SelectSeq(digitOrder,
                  LAMBDA d : ~isNull(d) /\ capped[d].confirmedCount.val > 0)
      eliminatedDigits ==
        SelectSeq(digitOrder,
                  LAMBDA d : IF isNull(d) THEN capped[d].maxCount = 0
                             ELSE ~(capped[d].confirmedCount.val > 0))
      unknownDigits ==
        SelectSeq(digitOrder,
                  LAMBDA d : isNull(d) /\ capped[d].maxCount # 0)
      digits ==
        [d \in Digits |->
           IF isNull(d) /\ capped[d].maxCount = 0
           THEN [capped[d] EXCEPT !.confirmedCount = Num(0)]
           ELSE capped[d]]
      confirmedSlots == knownSum
  IN  [digits |-> digits,
       confirmedDigits |-> confirmedDigits,
       eliminatedDigits |-> eliminatedDigits,
       unknownDigits |-> unknownDigits,
       confirmedSlots |-> confirmedSlots,
       remainingSlots |-> 4 - confirmedSlots,
       compositionKnown |-> compositionKnown(unknownDigits, remainingSlots)]

\* ------------------------------------------------- calls of the functions
\* Bounds of the inputs.
\* Longest candidate list a strategy is called with.
MaxCandidates == 8
\* Largest round index a strategy is called with.
MaxRound == 5
\* Longest string stringToCode is called with.
MaxStrLen == 5

FnIdle ==
  fnOp = "" /\ fnArgs = << >> /\ fnDone = FALSE /\ fnResult = Undefined

Reverse(seq) == [i \in 1..Len(seq) |-> seq[Len(seq) + 1 - i]]

\* The candidates a guess and a feedback leave of the whole code space.
knowledgeList(g, f) ==
  SelectSeq(AllCodes, LAMBDA c : computeFeedback(g, c) = f)

KnowledgeLists == { knowledgeList(g, f) : g \in CodeSet, f \in Feedbacks }

FilterInputs == KnowledgeLists \cup { Reverse(l) : l \in KnowledgeLists }

StrategyInputs ==
  { << >> } \cup { << a >> : a \in CodeSet }
            \cup { << a, b >> : a, b \in CodeSet }
            \cup { l \in KnowledgeLists : Len(l) <= MaxCandidates }

StrategyFunctions ==
  { "frequencyProbeGuess", "maxEntropyGuess", "minimaxGuess", "hybridGuess",
    "getSmartGuess" }

InputChars == { "0", "7", " ", "x" }

RECURSIVE StringsOfLen(_)
StringsOfLen(n) ==
  IF n = 0 THEN { << >> }
  ELSE { Append(t, ch) : t \in StringsOfLen(n - 1), ch \in InputChars }

InputStrings == UNION { StringsOfLen(n) : n \in 0..MaxStrLen }

InitFn ==
  /\ fnDone = FALSE
  /\ fnResult = Undefined
  /\ \/ fnOp = "computeFeedback" /\ fnArgs \in CodeSet \X CodeSet
     \/ fnOp = "filterCandidates"
          /\ fnArgs \in FilterInputs \X CodeSet \X Feedbacks
     \/ fnOp \in StrategyFunctions
          /\ fnArgs \in StrategyInputs \X (0..MaxRound)
     \/ fnOp = "stringToCode" /\ fnArgs \in { << s >> : s \in InputStrings }

CallComputeFeedback ==
  /\ fnOp = "computeFeedback" /\ ~fnDone
  /\ fnResult' = computeFeedback(fnArgs[1], fnArgs[2])
  /\ fnDone' = TRUE
  /\ UNCHANGED << fnOp, fnArgs >>
  /\ UNCHANGED notFn

CallFilterCandidates ==
  /\ fnOp = "filterCandidates" /\ ~fnDone
  /\ fnResult' = filterCandidates(fnArgs[1], fnArgs[2], fnArgs[3])
  /\ fnDone' = TRUE
  /\ UNCHANGED << fnOp, fnArgs >>
  /\ UNCHANGED notFn

callStrategy(name, candidates, round) ==
  CASE name = "frequencyProbeGuess" -> frequencyProbeGuess(candidates, AllCodes, round)
    [] name = "maxEntropyGuess" -> maxEntropyGuess(candidates, AllCodes, round)
    [] name = "minimaxGuess" -> minimaxGuess(candidates, AllCodes, round)
    [] name = "hybridGuess" -> hybridGuess(candidates, AllCodes, round)
    [] name = "getSmartGuess" -> getSmartGuess(candidates, AllCodes, round, << >>).guess

CallStrategy ==
  /\ fnOp \in StrategyFunctions /\ ~fnDone
  /\ fnResult' = callStrategy(fnOp, fnArgs[1], fnArgs[2])
  /\ fnDone' = TRUE
  /\ UNCHANGED << fnOp, fnArgs >>
  /\ UNCHANGED notFn

CallStringToCode ==
  /\ fnOp = "stringToCode" /\ ~fnDone
  /\ fnResult' = stringToCode(fnArgs[1])
  /\ fnDone' = TRUE
  /\ UNCHANGED << fnOp, fnArgs >>
  /\ UNCHANGED notFn

NextFn ==
  \/ CallComputeFeedback
  \/ CallFilterCandidates
  \/ CallStrategy
  \/ CallStringToCode

\* analyzeKnowledge is called with the history of a game.
\* Longest history.
MaxHistory == 3

monochromatic(d) == [i \in Positions |-> d]

\* A GameRound, as far as analyzeKnowledge reads it: an all-same-digit
\* guess with any feedback or none, or a mixed guess.
KnowledgeRounds ==
  [ guess : { monochromatic(d) : d \in Digits },
    feedback : { Num(f) : f \in Feedbacks } \cup { NullValue } ]
    \cup { [guess |-> AllCodes[2], feedback |-> Num(2)] }

Histories == SeqsUpTo(KnowledgeRounds, MaxHistory)

InitKnowledge ==
  /\ fnOp = "analyzeKnowledge"
  /\ fnArgs \in { << h >> : h \in Histories }
  /\ fnDone = FALSE
  /\ fnResult = Undefined

CallAnalyzeKnowledge ==
  /\ fnOp = "analyzeKnowledge" /\ ~fnDone
  /\ fnResult' = analyzeKnowledge(fnArgs[1])
  /\ fnDone' = TRUE
  /\ UNCHANGED << fnOp, fnArgs >>
  /\ UNCHANGED notFn

NextKnowledge == CallAnalyzeKnowledge

\* ------------------------------------------------------------ AIGuessesGame
AiIdle ==
  /\ aiTarget = Undefined /\ aiStarted = FALSE /\ aiCandidates = << >>
  /\ aiHistory = << >> /\ aiCurrentGuess = Undefined /\ aiGameOver = FALSE
  /\ aiTruthful = TRUE /\ aiSubmits = 0 /\ aiLastFb = Undefined

\* The component as mounted: useState's initial values.
InitAi ==
  /\ aiTarget = Undefined
  /\ aiStarted = FALSE
  /\ aiCandidates = AllCodes
  /\ aiHistory = << >>
  /\ aiCurrentGuess = Undefined
  /\ aiGameOver = FALSE
  /\ aiTruthful = TRUE
  /\ aiSubmits = 0
  /\ aiLastFb = Undefined

\* Most submitFeedback calls followed.
MaxSubmits == 5

\* What parseInt(feedbackInput) can be: NaN or an integer.
FeedbackEntries == { NaN } \cup { Num(v) : v \in (0 - 1)..(CodeLen + 1) }

\* startGame, on the start screen or the game-over card; the player has
\* a code in mind.
StartGame ==
  /\ ~aiStarted \/ aiGameOver
  /\ \E result \in { getSmartGuess(AllCodes, AllCodes, 0, << >>) } :
       /\ aiTarget' \in CodeSet
       /\ aiCandidates' = AllCodes
       /\ aiHistory' = << >>
       /\ aiGameOver' = FALSE
       /\ aiStarted' = TRUE
       /\ aiCurrentGuess' = result
       /\ aiTruthful' = TRUE
       /\ UNCHANGED << aiSubmits, aiLastFb >>
  /\ UNCHANGED notAi

\* A plausible slip: the upper end of the range is not looked at.
feedbackRejectedNoUpper(fb) == isNaN(fb) \/ fb.val < 0

\* if (isNaN(fb) || fb < 0 || fb > 4) return
feedbackRejected(fb) == isNaN(fb) \/ fb.val < 0 \/ fb.val > 4

\* What submitFeedback leaves as it is when it returns early.
aiGameState == << aiTarget, aiStarted, aiCandidates, aiHistory,
                  aiCurrentGuess, aiGameOver, aiTruthful >>

\* submitFeedback with fb = parseInt(feedbackInput).
SubmitFeedback(fb) ==
  /\ aiStarted /\ ~aiGameOver
  /\ aiSubmits < MaxSubmits
  /\ aiSubmits' = aiSubmits + 1
  /\ aiLastFb' = fb
  /\ UNCHANGED notAi
  /\ IF aiCurrentGuess = Undefined THEN UNCHANGED aiGameState
     ELSE IF feedbackRejected(fb) THEN UNCHANGED aiGameState
     ELSE LET round == [round |-> Len(aiHistory) + 1,
                        guess |-> aiCurrentGuess.guess,
                        feedback |-> fb.val,
                        strategy |-> aiCurrentGuess.strategy,
                        isCorrect |-> (fb.val = 4)]
              newHistory == Append(aiHistory, round)
          IN  /\ aiHistory' = newHistory
              /\ aiTruthful' = (aiTruthful /\ fb.val =
                                  computeFeedback(aiCurrentGuess.guess, aiTarget))
              /\ UNCHANGED << aiTarget, aiStarted >>
              /\ IF fb.val = 4
                 THEN /\ aiGameOver' = TRUE
                      /\ aiCurrentGuess' = Undefined
                      /\ UNCHANGED aiCandidates
                 ELSE \E newCandidates \in
                          { filterCandidates(aiCandidates, aiCurrentGuess.guess,
                                             fb.val) } :
                        /\ aiCandidates' = newCandidates
                        /\ IF Len(newCandidates) = 0
                           THEN /\ aiGameOver' = TRUE
                                /\ aiCurrentGuess' = Undefined
                           ELSE /\ aiCurrentGuess' =
                                     getSmartGuess(newCandidates, AllCodes,
                                                   Len(newHistory), newHistory)
                                /\ UNCHANGED aiGameOver

NextAi == StartGame \/ \E fb \in FeedbackEntries : SubmitFeedback(fb)

\* -------------------------------------------------------- runBenchmarkAsync
\* Bounds of the configs.
\* Largest numTargets the generator can serve that is tried; more than a
\* chunk holds.
MaxTargets == 6
\* Longest list of strategies.
MaxStrategies == 2
\* Largest seed.
MaxSeed == 1

\* const chunkSize = 5
chunkSize == 5

\* numTargets: what the generator can serve, and one more than there are
\* codes.  strategies: any list of the four names, the empty one included.
\* seed: a number (a config without one takes Date.now(), a number too).
Configs ==
  [ numTargets : (0..MaxTargets) \cup { NumCodes + 1 },
    strategies : SeqsUpTo(StrategyNames, MaxStrategies),
    seed : 0..MaxSeed ]

\* The PRNG of generateRandomTargets works on 32-bit integers; one is kept
\* as its two 16-bit halves << high, low >> of the unsigned bit pattern.
Half == 65536

\* s |= 0 of a number that is a small natural
toInt32(n) == << (n \div Half) % Half, n % Half >>

\* ^ and | of two halves
RECURSIVE bitXor(_, _)
bitXor(x, y) ==
  IF x = 0 THEN y
  ELSE IF y = 0 THEN x
  ELSE ((x + y) % 2) + 2 * bitXor(x \div 2, y \div 2)

RECURSIVE bitOr(_, _)
bitOr(x, y) ==
  IF x = 0 THEN y
  ELSE IF y = 0 THEN x
  ELSE Max2(x % 2, y % 2) + 2 * bitOr(x \div 2, y \div 2)

xor32(a, b) == << bitXor(a[1], b[1]), bitXor(a[2], b[2]) >>

or32(a, b) == << bitOr(a[1], b[1]), bitOr(a[2], b[2]) >>

\* a + b | 0
add32(a, b) ==
  << (a[1] + b[1] + (a[2] + b[2]) \div Half) % Half, (a[2] + b[2]) % Half >>

\* a >>> k, for 0 < k < 16
shr32(a, k) ==
  << a[1] \div 2^k, (a[2] \div 2^k) + (a[1] % 2^k) * 2^(16 - k) >>

\* The low 16 bits of the product of two halves, by the bytes of x.
mulLow16(x, y) ==
  ((x % 256) * y + (((x \div 256) * y) % 256) * 256) % Half

\* Math.imul(a, b): the low 32 bits of the product.
imul(a, b) ==
  LET p0 == (a[2] % 256) * b[2]
      p1 == (a[2] \div 256) * b[2]
      lo == (p0 % Half) + (p1 % 256) * 256
      hi == (p0 \div Half) + (p1 \div 256) + lo \div Half
  IN  << (hi + mulLow16(a[1], b[2]) + mulLow16(a[2], b[1])) % Half,
         lo % Half >>

\* 0x6D2B79F5
Increment == << 27947, 31221 >>

\* The three lines of rand() after s has been advanced: the 32 bits that
\* are divided by 4294967296.
randBits(s) ==
  CHOOSE bits \in
    { xor32(t2, shr32(t2, 14)) :
        t2 \in { xor32(add32(t1, imul(xor32(t1, shr32(t1, 7)),
                                      or32(toInt32(61), t1))), t1) :
          t1 \in { imul(xor32(s, shr32(s, 15)), or32(toInt32(1), s)) } } }
    : TRUE

\* rand() of mulberry32 from closure state s: the new s and the bits.
rand(s) ==
  CHOOSE r \in { [s |-> s1, bits |-> randBits(s1)] :
                   s1 \in { add32(s, Increment) } } : TRUE

\* Math.floor(rand() * 10), of the digits there are
randomDigit(bits) ==
  (bits[1] * (MaxDigit + 1) + (bits[2] * (MaxDigit + 1)) \div Half) \div Half

\* The code literal of the while loop: four calls of rand, left to right.
RECURSIVE randomCode(_, _)
randomCode(s, digits) ==
  IF Len(digits) = CodeLen THEN [s |-> s, code |-> digits]
  ELSE CHOOSE out \in
         { randomCode(r.s, Append(digits, randomDigit(r.bits))) :
             r \in { rand(s) } } : TRUE

\* while (targets.length < count): push the code when it was not seen.
RECURSIVE randomTargetsLoop(_, _, _)
randomTargetsLoop(count, s, found) ==
  IF ~(Len(found) < count) THEN found
  ELSE CHOOSE out \in
         { randomTargetsLoop(count, r.s,
             IF \E i \in 1..Len(found) : found[i] = r.code THEN found
             ELSE Append(found, r.code)) :
             r \in { randomCode(s, << >>) } } : TRUE

\* With more than NumCodes asked for the while loop never ends: there are
\* no more codes that were not seen.
generateRandomTargetsEnds(count) == count <= NumCodes

\* A plausible slip: s outlives the call (declared outside the function).
closureSeedShared(seed, previous) == previous

\* let s = seed: every call starts its own s from the seed (previous is
\* the s the call before ended with).
closureSeed(seed, previous) == toInt32(seed)

generateRandomTargets(count, seed) ==
  randomTargetsLoop(count, closureSeed(seed, toInt32(seed)), << >>)

\* Two calls generateRandomTargets(count, seed), iteration by iteration.
GenIdle ==
  /\ genCount = 0 /\ genSeed = 0 /\ genS = Undefined
  /\ genTargets = << >> /\ genReturned = << >>

\* The first call entered; count is what the code space can serve.
InitGen ==
  /\ genCount \in 0..NumCodes
  /\ genSeed \in 0..MaxSeed
  /\ genS = closureSeed(genSeed, toInt32(genSeed))
  /\ genTargets = << >>
  /\ genReturned = << >>

\* One iteration of the while loop.
GenIterate ==
  /\ Len(genReturned) < 2
  /\ Len(genTargets) < genCount
  /\ \E r \in { randomCode(genS, << >>) } :
       /\ genS' = r.s
       /\ genTargets' =
            IF \E i \in 1..Len(genTargets) : genTargets[i] = r.code
            THEN genTargets
            ELSE Append(genTargets, r.code)
  /\ UNCHANGED << genCount, genSeed, genReturned >>
  /\ UNCHANGED notGen

\* return targets; after the first call the second is entered.
GenReturn ==
  /\ Len(genReturned) < 2
  /\ ~(Len(genTargets) < genCount)
  /\ genReturned' = Append(genReturned, genTargets)
  /\ genS' = closureSeed(genSeed, genS)
  /\ genTargets' = << >>
  /\ UNCHANGED << genCount, genSeed >>
  /\ UNCHANGED notGen

NextGen == GenIterate \/ GenReturn

\* The state after runBenchmarkAsync(config, onProgress, onComplete) has
\* returned its handle, or while it hangs in generateRandomTargets.
InitBench ==
  /\ config \in Configs
  /\ results = << >>
  /\ cancelled = FALSE
  /\ strategyIdx = 0
  /\ gameIdx = 0
  /\ stepResults = << >>
  /\ sampleGames = << >>
  /\ distribution = << >>
  /\ progressCalls = << >>
  /\ completeCalls = << >>
  /\ gameCalls = << >>
  /\ cancelCalled = FALSE
  /\ IF generateRandomTargetsEnds(config.numTargets)
     THEN /\ targets = generateRandomTargets(config.numTargets, config.seed)
          /\ benchStatus = "running"
          /\ framePending = TRUE
          /\ frameRequests = 1
     ELSE /\ targets = << >>
          /\ benchStatus = "hung"
          /\ framePending = FALSE
          /\ frameRequests = 0

\* distribution[steps] = (distribution[steps] || 0) + 1
countSteps(dist, steps) ==
  IF steps \in DOMAIN dist THEN [dist EXCEPT ![steps] = @ + 1]
  ELSE dist @@ (steps :> 1)

\* A plausible slip: the cap lets a 31st sample in.
pushSampleOneMore(samples, result) ==
  IF (Len(samples) < 10 \/ result.steps >= 10 \/ result.steps <= 2)
     /\ Len(samples) <= 30
  THEN Append(samples, result)
  ELSE samples

\* the sampling rule of the chunk loop
pushSample(samples, result) ==
  IF (Len(samples) < 10 \/ result.steps >= 10 \/ result.steps <= 2)
     /\ Len(samples) < 30
  THEN Append(samples, result)
  ELSE samples

\* simulateGame(strategy, targets[gameIdx], allCodes) as it is called.
chunkCall(strategy, acc) ==
  [strategy |-> strategy, target |-> targets[acc.gameIdx + 1]]

\* The for loop of processNextChunk from game index idx, i games done:
\* the closure's variables after it, thrown set when simulateGame threw.
RECURSIVE chunkLoop(_, _, _)
chunkLoop(strategy, i, acc) ==
  IF ~(i < chunkSize /\ acc.gameIdx < Len(targets)) THEN acc
  ELSE CHOOSE after \in
         { IF result = TypeError
           THEN [acc EXCEPT !.thrown = TRUE,
                            !.gameCalls = Append(@, chunkCall(strategy, acc))]
           ELSE chunkLoop(strategy, i + 1,
                  [gameIdx |-> acc.gameIdx + 1,
                   stepResults |-> Append(acc.stepResults, result.steps),
                   distribution |-> countSteps(acc.distribution, result.steps),
                   sampleGames |-> pushSample(acc.sampleGames, result),
                   gameCalls |-> Append(acc.gameCalls,
                                        chunkCall(strategy, acc)),
                   thrown |-> FALSE])
           : result \in { simulateGame(strategy, targets[acc.gameIdx + 1],
                                        AllCodes) } } : TRUE

\* The StrategyResult pushed when a strategy has played every target; the
\* statistics are functions of stepResults.
strategyResult(strategy, acc) ==
  [strategy |-> strategy,
   totalGames |-> Len(targets),
   stepResults |-> acc.stepResults,
   distribution |-> acc.distribution,
   sampleGames |-> acc.sampleGames]

\* A plausible slip: the step list is carried over to the next strategy.
resetStepResultsKept(acc) == acc.stepResults

\* stepResults = []
resetStepResults(acc) == << >>

\* A plausible slip: the flag is not looked at.
cancelCheckMissing == FALSE

\* if (cancelled) return
cancelCheck == cancelled

\* The frame fires: processNextChunk.
ProcessNextChunk ==
  /\ framePending
  /\ UNCHANGED << config, targets, cancelled, cancelCalled >>
  /\ UNCHANGED notBench
  /\ IF cancelCheck
     THEN /\ framePending' = FALSE
          /\ UNCHANGED << results, strategyIdx, gameIdx, stepResults,
                          sampleGames, distribution, benchStatus,
                          frameRequests, progressCalls, completeCalls,
                          gameCalls >>
     ELSE \E strategy \in { at(config.strategies, strategyIdx) } :
          \E acc \in { chunkLoop(strategy, 0,
                          [gameIdx |-> gameIdx, stepResults |-> stepResults,
                           distribution |-> distribution,
                           sampleGames |-> sampleGames,
                           gameCalls |-> gameCalls, thrown |-> FALSE]) } :
            gameCalls' = acc.gameCalls /\
            IF acc.thrown
            THEN \* simulateGame threw out of the callback
                 /\ benchStatus' = "thrown"
                 /\ framePending' = FALSE
                 /\ gameIdx' = acc.gameIdx
                 /\ stepResults' = acc.stepResults
                 /\ distribution' = acc.distribution
                 /\ sampleGames' = acc.sampleGames
                 /\ UNCHANGED << results, strategyIdx, frameRequests,
                                 progressCalls, completeCalls >>
            ELSE /\ progressCalls' = Append(progressCalls,
                       [strategy |-> strategy,
                        strategyIndex |-> strategyIdx,
                        totalStrategies |-> Len(config.strategies),
                        gamesCompleted |-> acc.gameIdx,
                        totalGames |-> Len(targets),
                        currentTarget |->
                          IF acc.gameIdx < Len(targets)
                          THEN codeToString(targets[acc.gameIdx + 1])
                          ELSE << >>])
                 /\ IF acc.gameIdx >= Len(targets)
                    THEN IF strategy \notin StrategyNames
                         THEN \* info is undefined: info.displayName throws
                              /\ benchStatus' = "thrown"
                              /\ framePending' = FALSE
                              /\ gameIdx' = acc.gameIdx
                              /\ stepResults' = acc.stepResults
                              /\ distribution' = acc.distribution
                              /\ sampleGames' = acc.sampleGames
                              /\ UNCHANGED << results, strategyIdx,
                                              frameRequests, completeCalls >>
                         ELSE /\ results' = Append(results,
                                               strategyResult(strategy, acc))
                              /\ strategyIdx' = strategyIdx + 1
                              /\ gameIdx' = 0
                              /\ stepResults' = resetStepResults(acc)
                              /\ sampleGames' = << >>
                              /\ distribution' = << >>
                              /\ IF strategyIdx' >= Len(config.strategies)
                                 THEN /\ completeCalls' =
                                           Append(completeCalls, results')
                                      /\ benchStatus' = "complete"
                                      /\ framePending' = FALSE
                                      /\ UNCHANGED frameRequests
                                 ELSE /\ framePending' = TRUE
                                      /\ frameRequests' = frameRequests + 1
                                      /\ UNCHANGED << benchStatus,
                                                      completeCalls >>
                    ELSE /\ gameIdx' = acc.gameIdx
                         /\ stepResults' = acc.stepResults
                         /\ distribution' = acc.distribution
                         /\ sampleGames' = acc.sampleGames
                         /\ framePending' = TRUE
                         /\ frameRequests' = frameRequests + 1
                         /\ UNCHANGED << results, strategyIdx, benchStatus,
                                         completeCalls >>

\* The caller uses the returned handle: cancel().
Cancel ==
  /\ benchStatus \in { "running", "thrown", "complete" }
  /\ ~cancelled
  /\ cancelled' = TRUE
  /\ cancelCalled' = TRUE
  /\ UNCHANGED << config, targets, results, strategyIdx, gameIdx,
                  stepResults, sampleGames, distribution, benchStatus,
                  framePending, frameRequests, progressCalls, completeCalls,
                  gameCalls >>
  /\ UNCHANGED notBench

NextBench == ProcessNextChunk \/ Cancel

\* ------------------------------------------- two calls of runBenchmarkAsync
\* Everything a call of runBenchmarkAsync owns: the variables of its
\* closure, its pending frame and what its callbacks were given.
closure ==
  [config |-> config, targets |-> targets, results |-> results,
   cancelled |-> cancelled, strategyIdx |-> strategyIdx,
   gameIdx |-> gameIdx, stepResults |-> stepResults,
   sampleGames |-> sampleGames, distribution |-> distribution,
   benchStatus |-> benchStatus, framePending |-> framePending,
   frameRequests |-> frameRequests, progressCalls |-> progressCalls,
   completeCalls |-> completeCalls, gameCalls |-> gameCalls,
   cancelCalled |-> cancelCalled]

\* The closure of a call that has returned its handle.
started(cfg) ==
  [config |-> cfg,
   targets |-> generateRandomTargets(cfg.numTargets, cfg.seed),
   results |-> << >>, cancelled |-> FALSE, strategyIdx |-> 0,
   gameIdx |-> 0, stepResults |-> << >>, sampleGames |-> << >>,
   distribution |-> << >>, benchStatus |-> "running",
   framePending |-> TRUE, frameRequests |-> 1, progressCalls |-> << >>,
   completeCalls |-> << >>, gameCalls |-> << >>, cancelCalled |-> FALSE]

\* The configs of the two calls: more targets than a chunk holds, one
\* strategy or two, any seed.
TwoConfigs ==
  [ numTargets : { MaxTargets },
    strategies : { << "minimax" >>, << "frequency-probe", "hybrid" >> },
    seed : 0..MaxSeed ]

\* A plausible slip: cancelled is declared outside runBenchmarkAsync, one
\* flag for every call.
cancelledOfShared(own, live) == live

\* let cancelled = false inside runBenchmarkAsync: each call reads and
\* writes the flag of its own closure (live is the flag of the call that
\* ran last).
cancelledOf(own, live) == own

\* Both calls have returned their handles; no frame has fired yet.
InitTwo ==
  /\ \E c1 \in TwoConfigs :
       /\ config = c1
       /\ targets = generateRandomTargets(c1.numTargets, c1.seed)
  /\ results = << >> /\ cancelled = FALSE /\ strategyIdx = 0
  /\ gameIdx = 0 /\ stepResults = << >> /\ sampleGames = << >>
  /\ distribution = << >> /\ benchStatus = "running"
  /\ framePending = TRUE /\ frameRequests = 1
  /\ progressCalls = << >> /\ completeCalls = << >>
  /\ gameCalls = << >> /\ cancelCalled = FALSE
  /\ \E c2 \in TwoConfigs : other = started(c2)
  /\ current = 1

\* What runs next belongs to the other call: its frame fires, or the
\* caller uses its handle.  The harness variables are handed over.
Switch ==
  /\ other # Undefined
  /\ other' = closure
  /\ current' = 3 - current
  /\ config' = other.config
  /\ targets' = other.targets
  /\ results' = other.results
  /\ cancelled' = cancelledOf(other.cancelled, cancelled)
  /\ strategyIdx' = other.strategyIdx
  /\ gameIdx' = other.gameIdx
  /\ stepResults' = other.stepResults
  /\ sampleGames' = other.sampleGames
  /\ distribution' = other.distribution
  /\ benchStatus' = other.benchStatus
  /\ framePending' = other.framePending
  /\ frameRequests' = other.frameRequests
  /\ progressCalls' = other.progressCalls
  /\ completeCalls' = other.completeCalls
  /\ gameCalls' = other.gameCalls
  /\ cancelCalled' = other.cancelCalled
  /\ UNCHANGED << gameVars, fnVars, aiVars, genVars, sampleVars >>

NextTwo == ProcessNextChunk \/ Cancel \/ Switch

\* ------------------------------------------------ the sampling rule alone
\* The sampling lines of the chunk loop, over the games of one strategy.
\* A game's result is taken as given: its number among the strategy's
\* games stands for its target (targets are pairwise distinct), and its
\* step count is the next of a pattern that repeats.
\* Longest pattern of step counts.
MaxPattern == 3
\* Most games of one strategy.
MaxGames == 45

\* Step counts on both sides of the thresholds of the rule, and the
\* extremes simulateGame returns.
StepChoices == { 1, 2, 3, 9, 10, 20 }

SampleIdle ==
  smpPattern = << >> /\ smpGames = << >> /\ smpSamples = << >>

TwoIdle == other = Undefined /\ current = 1

InitSample ==
  /\ smpPattern \in SeqsUpTo(StepChoices, MaxPattern) \ { << >> }
  /\ smpGames = << >>
  /\ smpSamples = << >>

\* One pass through the body of the for loop, after simulateGame returned.
SampleGame ==
  /\ Len(smpGames) < MaxGames
  /\ \E result \in
         { [target |-> Len(smpGames) + 1,
            steps |-> smpPattern[(Len(smpGames) % Len(smpPattern)) + 1]] } :
       /\ smpGames' = Append(smpGames, result)
       /\ smpSamples' = pushSample(smpSamples, result)
  /\ UNCHANGED smpPattern
  /\ UNCHANGED notSample

NextSample == SampleGame

\* ---------------------------------------------------------- specifications
BenchIdle ==
  /\ config = Undefined /\ targets = << >> /\ results = << >>
  /\ cancelled = FALSE /\ strategyIdx = 0 /\ gameIdx = 0
  /\ stepResults = << >> /\ sampleGames = << >> /\ distribution = << >>
  /\ benchStatus = "idle" /\ framePending = FALSE /\ frameRequests = 0
  /\ progressCalls = << >> /\ completeCalls = << >> /\ gameCalls = << >>
  /\ cancelCalled = FALSE

\* One call of simulateGame.
Init == InitGame /\ FnIdle /\ AiIdle /\ BenchIdle /\ GenIdle
    /\ SampleIdle /\ TwoIdle
Next == NextGame
Spec == Init /\ [][Next]_vars

\* One call of simulateGame that is run to its return: the loop is
\* sequential code, so a game that can take a step takes it.  The second
\* conjunct is WF_vars(SimulateRound) with ENABLED written out as the
\* guard of the action: a running game below the cap always has a guess
\* to record.
SpecFair ==
  /\ Spec
  /\ WF_vars(SimulateCapped)
  /\ \/ []<>(~(simOutcome = "running" /\ loopContinues(simRound)))
     \/ []<><<SimulateRound>>_vars

\* One call of simulateGame, over the scaled code space with every
\* strategy or over the codes of the source with frequency-probe.
InitSourceSpec ==
  (InitGame \/ InitSourceGame) /\ FnIdle /\ AiIdle /\ BenchIdle /\ GenIdle
    /\ SampleIdle /\ TwoIdle
SpecSource == InitSourceSpec /\ [][NextGame]_vars

\* One call of simulateGame with any list of codes as allCodes.
InitAnySpec == InitAnyGame /\ FnIdle /\ AiIdle /\ BenchIdle /\ GenIdle
    /\ SampleIdle /\ TwoIdle
SpecAny == InitAnySpec /\ [][NextGame]_vars

\* One call of a pure function.
InitFnSpec == InitFn /\ GameIdle /\ AiIdle /\ BenchIdle /\ GenIdle
    /\ SampleIdle /\ TwoIdle
SpecFn == InitFnSpec /\ [][NextFn]_vars

\* One call of analyzeKnowledge.
InitKnowledgeSpec ==
  InitKnowledge /\ GameIdle /\ AiIdle /\ BenchIdle /\ GenIdle
    /\ SampleIdle /\ TwoIdle
SpecKnowledge == InitKnowledgeSpec /\ [][NextKnowledge]_vars

\* The interactive AI game.
InitAiSpec == InitAi /\ GameIdle /\ FnIdle /\ BenchIdle /\ GenIdle
    /\ SampleIdle /\ TwoIdle
SpecAi == InitAiSpec /\ [][NextAi]_vars

\* Two calls of generateRandomTargets.
InitGenSpec ==
  InitGen /\ GameIdle /\ FnIdle /\ AiIdle /\ BenchIdle
    /\ SampleIdle /\ TwoIdle
SpecGen == InitGenSpec /\ [][NextGen]_vars

\* The sampling rule over the games of one strategy.
InitSampleSpec ==
  InitSample /\ GameIdle /\ FnIdle /\ AiIdle /\ BenchIdle /\ GenIdle
    /\ TwoIdle
SpecSample == InitSampleSpec /\ [][NextSample]_vars

\* Two calls of runBenchmarkAsync whose frames fire in any order.
InitTwoSpec ==
  InitTwo /\ GameIdle /\ FnIdle /\ AiIdle /\ GenIdle /\ SampleIdle
SpecTwo == InitTwoSpec /\ [][NextTwo]_vars

\* One call of runBenchmarkAsync.
InitBenchSpec == InitBench /\ GameIdle /\ FnIdle /\ AiIdle /\ GenIdle
    /\ SampleIdle /\ TwoIdle
SpecBench == InitBenchSpec /\ [][NextBench]_vars

\* ------------------------------------------------------------------ claims
\* What the game returned with: simulateGame has left its loop.
simReturned == simOutcome \in { "won", "empty", "capped" }

\* C1: simulateGame with the hybrid strategy, from the full code space,
\* ends for every target with a guess equal to the target, position by
\* position, after at most 20 guesses; it never returns by running into
\* the step cap.
C1_HybridAlwaysWins ==
  (simStrategy = "hybrid" /\ simReturned) =>
    /\ simOutcome = "won"
    /\ simSteps <= DefaultMaxSteps
    /\ Len(simGuesses) = simSteps
    /\ simGuesses[Len(simGuesses)] = codeToString(simTarget)

\* The harness is at rest: no frame is pending, so no callback will run.
benchAtRest == ~framePending

\* C2: when cancel is not called, runBenchmarkAsync ends up calling
\* onComplete, once, with the final results (one per configured
\* strategy), and no onProgress or onComplete call follows it.  Stated of
\* the states of a call: onComplete is never called twice, nothing is
\* pending after it, and a call that is at rest without having been
\* cancelled has called onComplete once with the final results.
C2_CompletesExactlyOnce ==
  /\ Len(completeCalls) <= 1
  /\ (Len(completeCalls) = 1 => benchAtRest)
  /\ (benchAtRest /\ ~cancelled) =>
       /\ Len(completeCalls) = 1
       /\ completeCalls[1] = results
       /\ Len(results) = Len(config.strategies)

\* C3: once cancel() has been called, no onProgress call and no onComplete
\* call is made, no further frame is requested and no result is added or
\* delivered.
C3_NothingAfterCancel ==
  [][cancelled =>
       /\ progressCalls' = progressCalls
       /\ completeCalls' = completeCalls
       /\ frameRequests' = frameRequests
       /\ (framePending' => framePending)
       /\ results' = results]_vars

\* C3 witness: a benchmark cancelled at the chunk boundary after its first
\* chunk, with games of the strategy still to play, whose pending frame
\* has fired and returned.
C3_Witness ==
  /\ cancelled /\ ~framePending /\ benchStatus = "running"
  /\ gameIdx = chunkSize /\ gameIdx < Len(targets)
  /\ Len(progressCalls) = 1 /\ results = << >> /\ completeCalls = << >>

\* C4: with truthful feedback, a round of the AI game is marked correct,
\* and the game ends as a win, only when the guess equals the player's
\* code in all four positions.
C4_WinOnlyOnExactMatch ==
  aiTruthful =>
    \A k \in 1..Len(aiHistory) :
      (aiHistory[k].isCorrect \/ (aiGameOver /\ aiHistory[k].feedback = 4)) =>
        isExactMatch(aiHistory[k].guess, aiTarget)

\* The digits of a code as a bag.
codeBag(code) ==
  [d \in { code[i] : i \in DOMAIN code } |->
     Cardinality({ i \in DOMAIN code : code[i] = d })]

\* The size of the multiset intersection of two codes.
multisetIntersection(a, b) ==
  BagCardinality(codeBag(a) (-) (codeBag(a) (-) codeBag(b)))

\* C5: computeFeedback(a, b) is the size of the multiset intersection of
\* a and b, it lies in 0..4, and it is 4 when a = b.
C5_FeedbackIsMultisetIntersection ==
  (fnOp = "computeFeedback" /\ fnDone) =>
    /\ fnResult = multisetIntersection(fnArgs[1], fnArgs[2])
    /\ fnResult \in 0..4
    /\ (fnArgs[1] = fnArgs[2] => fnResult = 4)

\* C5 witness: two different codes with the same digits score 4.
C5_Witness ==
  /\ fnOp = "computeFeedback" /\ fnDone
  /\ fnArgs[1] # fnArgs[2] /\ fnResult = 4

\* C6: computeFeedback(a, b) = computeFeedback(b, a).
C6_FeedbackSymmetric ==
  (fnOp = "computeFeedback" /\ fnDone) =>
    fnResult = computeFeedback(fnArgs[2], fnArgs[1])

\* C6 witness: codes with different digit counts, scored in one order.
C6_Witness ==
  /\ fnOp = "computeFeedback" /\ fnDone
  /\ fnArgs = << <<0, 0, 0, 0>>, <<0, 0, 0, 1>> >> /\ fnResult = 3

\* How often a code occurs in a list.
occurrences(list, c) == Cardinality({ j \in DOMAIN list : list[j] = c })

\* The first place of a code in a list.
firstIndex(list, c) ==
  CHOOSE j \in DOMAIN list :
    list[j] = c /\ \A i \in DOMAIN list : list[i] = c => j <= i

\* C7: filterCandidates(candidates, g, f) returns exactly the members c of
\* candidates with computeFeedback(g, c) = f, in their original order;
\* the result is never longer than the input, and filtering it again with
\* the same g and f leaves it unchanged.
C7_FilterExactOrderedIdempotent ==
  (fnOp = "filterCandidates" /\ fnDone) =>
    LET candidates == fnArgs[1]
        g == fnArgs[2]
        f == fnArgs[3]
    IN  /\ \A j \in DOMAIN candidates :
             occurrences(fnResult, candidates[j]) =
               IF computeFeedback(g, candidates[j]) = f
               THEN occurrences(candidates, candidates[j]) ELSE 0
        /\ \A k \in DOMAIN fnResult : occurrences(candidates, fnResult[k]) > 0
        /\ \A k \in 1..(Len(fnResult) - 1) :
             firstIndex(candidates, fnResult[k]) <
               firstIndex(candidates, fnResult[k + 1])
        /\ Len(fnResult) <= Len(candidates)
        /\ filterCandidates(fnResult, g, f) = fnResult

\* C7 witness: a list in descending order of which some members are
\* dropped and several kept.
C7_Witness ==
  /\ fnOp = "filterCandidates" /\ fnDone
  /\ Len(fnResult) >= 2 /\ Len(fnResult) < Len(fnArgs[1])
  /\ fnArgs[1][1] = AllCodes[NumCodes]

\* A concrete code: four decimal digits.
isCode(v) ==
  /\ DOMAIN v = Positions
  /\ \A i \in Positions : v[i] \in 0..9

\* C8: for a candidate list of any size, 0 included, and any round, every
\* strategy function returns a concrete four-digit code.
C8_StrategyReturnsCode ==
  (fnOp \in StrategyFunctions /\ fnDone) => isCode(fnResult)

\* C9: with exactly one candidate every strategy returns it, and with
\* exactly two candidates every strategy returns the first.
C9_OneOrTwoCandidates ==
  (fnOp \in StrategyFunctions /\ fnDone /\ Len(fnArgs[1]) \in { 1, 2 }) =>
    fnResult = fnArgs[1][1]

\* C9 witness: two candidates, the larger first, and the first returned.
C9_Witness ==
  /\ fnOp = "minimaxGuess" /\ fnDone
  /\ fnArgs[1] = << <<1, 1, 1, 1>>, <<0, 0, 0, 0>> >>
  /\ fnResult = <<1, 1, 1, 1>>

DecimalDigits == { "0", "1", "2", "3", "4", "5", "6", "7", "8", "9" }

\* C10: stringToCode returns a Code exactly for the strings of four
\* decimal digits, and null for every other string.
C10_StringToCodeRejects ==
  (fnOp = "stringToCode" /\ fnDone) =>
    LET str == fnArgs[1]
        fourDigits == Len(str) = 4 /\ \A i \in DOMAIN str : str[i] \in DecimalDigits
    IN  IF fourDigits THEN isCode(fnResult) ELSE fnResult = Null


\* C11: a submitFeedback call whose feedback value is not an integer in
\* 0..4 (NaN, negative, or above 4) returns before filterCandidates is
\* called: the history, the candidates, the current guess and the
\* game-over flag are what they were.
C11_InvalidFeedbackRejected ==
  [][(aiSubmits' = aiSubmits + 1
        /\ (isNaN(aiLastFb') \/ aiLastFb'.val \notin 0..4))
       => /\ aiHistory' = aiHistory
          /\ aiCandidates' = aiCandidates
          /\ aiCurrentGuess' = aiCurrentGuess
          /\ aiGameOver' = aiGameOver]_vars

\* C11 witness: in a game with a round behind it, the latest submission
\* was of a value above 4 and the game goes on.
C11_Witness ==
  /\ aiStarted /\ ~aiGameOver /\ Len(aiHistory) = 1
  /\ aiSubmits = 2 /\ aiLastFb = Num(5) /\ aiCurrentGuess # Undefined

\* analyzeKnowledge has returned.
knowledgeReturned == fnOp = "analyzeKnowledge" /\ fnDone

\* Every round of the history has an all-same-digit guess and a feedback
\* in 0..4.
onlyMonochromatic(history) ==
  \A k \in 1..Len(history) :
    /\ \A i \in Positions : history[k].guess[i] = history[k].guess[1]
    /\ history[k].feedback # NullValue
    /\ history[k].feedback.val \in 0..4

\* The feedbacks of the rounds, added up.
RECURSIVE feedbackSum(_)
feedbackSum(history) ==
  IF history = << >> THEN 0
  ELSE Head(history).feedback.val + feedbackSum(Tail(history))

\* Every digit is in the confirmed list or in the eliminated list.
allClassified(result) ==
  \A d \in Digits :
    \/ \E i \in 1..Len(result.confirmedDigits) : result.confirmedDigits[i] = d
    \/ \E i \in 1..Len(result.eliminatedDigits) : result.eliminatedDigits[i] = d

\* C12 as stated: for every history of all-same-digit guesses with
\* feedbacks in 0..4 that add up to 4, analyzeKnowledge returns
\* compositionKnown = true, an empty unknownDigits, and every digit in the
\* confirmed or the eliminated list.
C12_MonochromaticSumFour ==
  (knowledgeReturned /\ onlyMonochromatic(fnArgs[1])
     /\ feedbackSum(fnArgs[1]) = 4) =>
    /\ fnResult.compositionKnown
    /\ fnResult.unknownDigits = << >>
    /\ allClassified(fnResult)

\* No digit is guessed in two rounds.
distinctGuesses(history) ==
  \A i, j \in 1..Len(history) : history[i].guess = history[j].guess => i = j

\* C12 amended: for every history of all-same-digit guesses of pairwise
\* different digits, with feedbacks in 0..4 that add up to 4,
\* analyzeKnowledge returns compositionKnown = true, an empty
\* unknownDigits, and every digit in the confirmed or the eliminated list.
C12_DistinctMonochromaticSumFour ==
  (knowledgeReturned /\ onlyMonochromatic(fnArgs[1])
     /\ distinctGuesses(fnArgs[1]) /\ feedbackSum(fnArgs[1]) = 4) =>
    /\ fnResult.compositionKnown
    /\ fnResult.unknownDigits = << >>
    /\ allClassified(fnResult)

\* C12 witness: two different digits guessed, two of each in the code.
C12_Witness ==
  /\ knowledgeReturned /\ Len(fnArgs[1]) = 2
  /\ onlyMonochromatic(fnArgs[1]) /\ distinctGuesses(fnArgs[1])
  /\ fnArgs[1][1].feedback = Num(2) /\ fnArgs[1][2].feedback = Num(2)
  /\ fnResult.compositionKnown

\* No digit of the returned state has a null confirmedCount.
allConfirmed(result) ==
  \A d \in Digits : result.digits[d].confirmedCount # NullValue

\* The confirmed counts of the returned state, added up over the digits
\* of D.
RECURSIVE confirmedTotal(_, _)
confirmedTotal(result, D) ==
  IF D = {} THEN 0
  ELSE LET d == CHOOSE x \in D : TRUE
       IN  result.digits[d].confirmedCount.val
             + confirmedTotal(result, D \ {d})

\* C13 as stated: for every history, when analyzeKnowledge leaves no digit
\* with a null confirmedCount, the confirmed counts add up to exactly 4.
C13_AllConfirmedSumFour ==
  (knowledgeReturned /\ allConfirmed(fnResult)) =>
    confirmedTotal(fnResult, Digits) = 4

\* The feedbacks of the history are those of some code.
consistent(history) ==
  \E c \in CodeSet :
    \A k \in 1..Len(history) :
      history[k].feedback # NullValue =>
        multisetIntersection(history[k].guess, c) = history[k].feedback.val

\* C13 amended: for every history whose feedbacks are the feedbacks of
\* some code, when analyzeKnowledge leaves no digit with a null
\* confirmedCount, the confirmed counts add up to exactly 4.
C13_ConsistentAllConfirmedSumFour ==
  (knowledgeReturned /\ allConfirmed(fnResult) /\ consistent(fnArgs[1])) =>
    confirmedTotal(fnResult, Digits) = 4

\* C13 witness: a consistent history after which both 0 and 1 are
\* confirmed present.
C13_Witness ==
  /\ knowledgeReturned /\ allConfirmed(fnResult) /\ consistent(fnArgs[1])
  /\ fnResult.confirmedDigits = << 0, 1 >>

\* C14: for every history, when analyzeKnowledge returns compositionKnown
\* = true, its confirmedSlots is 4 and its unknownDigits is empty.
C14_CompositionKnownImplies ==
  (knowledgeReturned /\ fnResult.compositionKnown) =>
    /\ fnResult.confirmedSlots = 4
    /\ fnResult.unknownDigits = << >>

\* C14 witness: compositionKnown after three rounds, one of them without
\* a feedback.
C14_Witness ==
  /\ knowledgeReturned /\ fnResult.compositionKnown
  /\ Len(fnArgs[1]) = 3
  /\ \E k \in 1..3 : fnArgs[1][k].feedback = NullValue

\* C15: two calls of generateRandomTargets with the same count and the
\* same seed return the same list, target for target, and a returned list
\* has exactly count codes, no two of them equal.
C15_SeedDeterminesTargets ==
  /\ Len(genReturned) = 2 => genReturned[1] = genReturned[2]
  /\ \A k \in 1..Len(genReturned) :
       /\ Len(genReturned[k]) = genCount
       /\ \A i, j \in 1..genCount :
            genReturned[k][i] = genReturned[k][j] => i = j
       /\ \A i \in 1..genCount : genReturned[k][i] \in CodeSet

\* C15 witness: both calls have returned, with a target for every code
\* there is.
C15_Witness ==
  /\ Len(genReturned) = 2 /\ genCount = NumCodes
  /\ Len(genReturned[2]) = NumCodes

\* C16: simulateGame ends as won at the first round r (counted from 0)
\* whose guess is the target position by position: it reports
\* steps = r + 1, has recorded exactly r + 1 guesses, the last one is the
\* target and none before it is; once a guess has matched, no further
\* guess is recorded.
C16_WonAtFirstMatch ==
  /\ [](/\ simOutcome = "won" =>
             /\ simSteps = simRound + 1
             /\ Len(simGuesses) = simRound + 1
             /\ simGuesses[Len(simGuesses)] = codeToString(simTarget)
             /\ \A k \in 1..(Len(simGuesses) - 1) :
                  simGuesses[k] # codeToString(simTarget)
        /\ simOutcome = "running" =>
             \A k \in 1..Len(simGuesses) :
               simGuesses[k] # codeToString(simTarget))
  /\ [][(\E k \in 1..Len(simGuesses) :
           simGuesses[k] = codeToString(simTarget))
          => simGuesses' = simGuesses]_vars

C16_Witness ==
  /\ simOutcome = "won"
  /\ simSteps = 5
  /\ Len(simGuesses) = 5
  /\ simGuesses[5] = codeToString(simTarget)

\* C17: simulateGame terminates for every strategy and target: every game
\* returns, no game records more than 20 guesses, and a game in which
\* none of 20 guesses matched returns steps = 20.
C17_Terminates ==
  /\ <>simReturned
  /\ [](/\ Len(simGuesses) <= 20
        /\ simOutcome = "capped" =>
             /\ simSteps = 20
             /\ Len(simGuesses) = 20
             /\ \A k \in 1..20 : simGuesses[k] # codeToString(simTarget))

C17_Witness ==
  /\ simOutcome = "capped"
  /\ simSteps = 20
  /\ Len(simGuesses) = 20

members(list) == { list[i] : i \in 1..Len(list) }

\* C19: in simulateGame, for every strategy and target, the target is
\* among the candidates at the start of every round and after every
\* filter step, so the game never returns from the empty-candidate
\* branch; the candidates after a round are among those before it.
C19_TargetStaysCandidate ==
  /\ [](/\ simOutcome # "empty"
        /\ simTarget \in members(simCandidates)
        /\ simCandidates # << >>)
  /\ [][members(simCandidates') \subseteq members(simCandidates)]_vars

C19_Witness ==
  /\ simOutcome = "running"
  /\ Len(simSizes) = 3
  /\ Len(simCandidates) < simSizes[3]
  /\ simSizes[3] < simSizes[2]
  /\ simSizes[2] < simSizes[1]
  /\ simTarget \in members(simCandidates)

\* Round k (counted from 1) started with exactly two candidates and its
\* guess was not the target.
missAmongTwo(k) ==
  /\ k \in 1..Len(simSizes)
  /\ simSizes[k] = 2
  /\ simGuesses[k] # codeToString(simTarget)

C21_NoGuessTwice ==
  \A i, j \in 1..Len(simGuesses) : simGuesses[i] = simGuesses[j] => i = j

\* A frame fired and processNextChunk ran past its cancel check.
chunkStep ==
  /\ framePending
  /\ ~cancelled
  /\ ~cancelled'
  /\ benchVars' # benchVars

\* C22: every scheduling step of the harness simulates exactly
\* min(5, games the active strategy still has to play) games, all of the
\* active strategy and in target order, then calls onProgress exactly
\* once with that strategy's index and the number of its games finished
\* so far, and then yields (or completes).
C22_ChunkOfOneStrategy ==
  [][chunkStep =>
       LET k == Min2(5, Len(targets) - gameIdx)
       IN  /\ strategyIdx < Len(config.strategies)
           /\ Len(gameCalls') = Len(gameCalls) + k
           /\ \A j \in 1..k :
                /\ gameCalls'[Len(gameCalls) + j].strategy =
                     config.strategies[strategyIdx + 1]
                /\ gameCalls'[Len(gameCalls) + j].target =
                     targets[gameIdx + j]
           /\ Len(progressCalls') = Len(progressCalls) + 1
           /\ progressCalls'[Len(progressCalls')].strategyIndex = strategyIdx
           /\ progressCalls'[Len(progressCalls')].gamesCompleted = gameIdx + k
           /\ framePending' \/ benchStatus' = "complete"]_vars

\* The sum of the counts a histogram holds for the given keys.
RECURSIVE sumCounts(_, _)
sumCounts(dist, keys) ==
  IF keys = {} THEN 0
  ELSE LET key == CHOOSE x \in keys : TRUE
       IN  dist[key] + sumCounts(dist, keys \ { key })

\* How often a step count occurs in a step list.
timesIn(steps, list) == Cardinality({ j \in 1..Len(list) : list[j] = steps })

\* C23: the list handed to onComplete holds one StrategyResult per
\* configured strategy, in configuration order; result i aggregates the N
\* games of strategy i and nothing else: the games played for it are the
\* N targets in order under strategy i, its step list has N entries, its
\* histogram is the histogram of that list (counts summing to N) and its
\* samples are games of that strategy; the step list, histogram and
\* samples are empty whenever a strategy begins.
C23_OneResultPerStrategy ==
  /\ \A c \in 1..Len(completeCalls) :
       LET delivered == completeCalls[c]
           N == Len(targets)
       IN  /\ Len(delivered) = Len(config.strategies)
           /\ Len(gameCalls) = N * Len(config.strategies)
           /\ \A i \in 1..Len(delivered) :
                /\ delivered[i].strategy = config.strategies[i]
                /\ delivered[i].totalGames = N
                /\ Len(delivered[i].stepResults) = N
                /\ \A j \in 1..N :
                     gameCalls[(i - 1) * N + j] =
                       [strategy |-> config.strategies[i],
                        target |-> targets[j]]
                /\ sumCounts(delivered[i].distribution,
                             DOMAIN delivered[i].distribution) = N
                /\ \A steps \in DOMAIN delivered[i].distribution :
                     delivered[i].distribution[steps] =
                       timesIn(steps, delivered[i].stepResults)
                /\ \A j \in 1..Len(delivered[i].sampleGames) :
                     \E t \in 1..N :
                       /\ delivered[i].sampleGames[j].target =
                            codeToString(targets[t])
                       /\ delivered[i].sampleGames[j].steps =
                            delivered[i].stepResults[t]
  /\ (benchStatus \in { "running", "complete" } /\ gameIdx = 0) =>
       /\ stepResults = << >>
       /\ distribution = << >>
       /\ sampleGames = << >>

C23_Witness ==
  /\ Len(completeCalls) = 1
  /\ Len(completeCalls[1]) = 2
  /\ completeCalls[1][1].strategy # completeCalls[1][2].strategy
  /\ Len(completeCalls[1][2].stepResults) = 6
  /\ completeCalls[1][1].stepResults # completeCalls[1][2].stepResults

\* A game worth keeping after the first ten.
interesting(result) == result.steps >= 10 \/ result.steps <= 2

\* C24: for each strategy the retained samples never exceed 30; the first
\* min(10, N) games are retained, in order; every later game is retained
\* if and only if it took at least 10 or at most 2 steps and fewer than
\* 30 samples are held when it ends.
C24_SamplesKept ==
  /\ [](/\ Len(smpSamples) <= 30
        /\ \A k \in 1..Min2(10, Len(smpGames)) : smpSamples[k] = smpGames[k])
  /\ [][Len(smpGames') = Len(smpGames) + 1 =>
          LET game == smpGames'[Len(smpGames')]
          IN  IF Len(smpGames) < 10
                 \/ (interesting(game) /\ Len(smpSamples) < 30)
              THEN smpSamples' = Append(smpSamples, game)
              ELSE smpSamples' = smpSamples]_vars

C24_Witness ==
  /\ Len(smpGames) = 44
  /\ Len(smpSamples) = 30
  /\ interesting(smpGames[44])
  /\ ~interesting(smpGames[12])
  /\ smpSamples[30].target < 44
  /\ \A j \in 1..30 : smpSamples[j].target # 12

\* What a call delivers when it runs alone, written from the config.
\* The results of the N games of a strategy:
gamesAlone(strategy, tg) ==
  << >> \o [j \in 1..Len(tg) |-> simulateGame(strategy, tg[j], AllCodes)]

RECURSIVE histogramAlone(_, _, _)
histogramAlone(games, j, dist) ==
  IF j > Len(games) THEN dist
  ELSE histogramAlone(games, j + 1, countSteps(dist, games[j].steps))

RECURSIVE samplesAlone(_, _, _)
samplesAlone(games, j, samples) ==
  IF j > Len(games) THEN samples
  ELSE samplesAlone(games, j + 1, pushSample(samples, games[j]))

resultAlone(strategy, tg) ==
  CHOOSE r \in
    { [strategy |-> strategy,
       totalGames |-> Len(tg),
       stepResults |-> << >> \o [j \in 1..Len(tg) |-> games[j].steps],
       distribution |-> histogramAlone(games, 1, << >>),
       sampleGames |-> samplesAlone(games, 1, << >>)]
      : games \in { gamesAlone(strategy, tg) } } : TRUE

resultsAlone(cfg) ==
  CHOOSE rs \in
    { << >> \o [i \in 1..Len(cfg.strategies) |->
                  resultAlone(cfg.strategies[i], tg)]
      : tg \in { generateRandomTargets(cfg.numTargets, cfg.seed) } } : TRUE

\* The n-th onProgress call (n from 1) of a call over tg with at least
\* one target: chunks of 5 per strategy, the last one shorter.
progressAlone(cfg, tg, n) ==
  LET N == Len(tg)
      chunks == (N + 4) \div 5
      i == (n - 1) \div chunks
      done == Min2(5 * (((n - 1) % chunks) + 1), N)
  IN  [strategy |-> cfg.strategies[i + 1],
       strategyIndex |-> i,
       totalStrategies |-> Len(cfg.strategies),
       gamesCompleted |-> done,
       totalGames |-> N,
       currentTarget |-> IF done < N THEN codeToString(tg[done + 1])
                         ELSE << >>]

\* C25: two calls of runBenchmarkAsync whose chunks interleave in any
\* order do not affect each other: each call's onProgress calls are those
\* it makes alone, the results it hands to onComplete are those it
\* delivers alone, a step of one call leaves everything of the other
\* unchanged, and cancelling one neither cancels nor stops the other: a
\* call whose own cancel was not called has its flag unset and comes to
\* rest only by completing.
C25_CallsIndependent ==
  /\ [](\A h \in { closure, other } :
          /\ \A n \in 1..Len(h.progressCalls) :
               h.progressCalls[n] = progressAlone(h.config, h.targets, n)
          /\ h.cancelled = h.cancelCalled
          /\ Len(h.completeCalls) <= 1
          /\ (~h.cancelCalled /\ ~h.framePending) =>
               Len(h.completeCalls) = 1)
  /\ [][current' = current =>
          /\ other' = other
          /\ Len(completeCalls') > Len(completeCalls) =>
               completeCalls'[Len(completeCalls')] = resultsAlone(config)]_vars

C25_Witness ==
  /\ current = 1
  /\ benchStatus = "complete"
  /\ Len(completeCalls) = 1
  /\ Len(results) = 2
  /\ ~cancelCalled
  /\ other.cancelCalled
  /\ ~other.framePending
  /\ other.benchStatus = "running"
  /\ Len(other.progressCalls) = 1
  /\ other.config.seed # config.seed

\* ------------------------------------------------- the searches, by size
\* Which search a strategy runs is decided by the length n of the candidate
\* list, the length of allCodes and the round alone.  The operators below
\* are the strategies as far as these lengths decide them: the branch
\* taken, the pool searched, the evaluation limit and the indices the loop
\* visits.  They let the thresholds of the source (50, 100, 200, 500, 1000,
\* 5000) be crossed with the 10,000 codes of the source.

\* The codes generateAllCodes returns in the source.
NumSourceCodes ==
  (SourceMaxDigit + 1) * (SourceMaxDigit + 1) * (SourceMaxDigit + 1)
    * (SourceMaxDigit + 1)

\* A plausible slip: step = Math.ceil(length / limit).
strideCeil(length, limit) == Max2(1, (length + limit - 1) \div limit)

\* const step = Math.max(1, Math.floor(length / limit))
stride(length, limit) == Max2(1, length \div limit)

\* for (let i = 0; i < length; i += step): the indices visited.
visited(length, step) == { i \in 0..(length - 1) : i % step = 0 }

\* A branch that returns without a search.
noSearch(branch, probe) ==
  [branch |-> branch, probe |-> probe, pool |-> "none", length |-> 0,
   L |-> 0, step |-> 0, evaluated |-> {}]

\* A strided search over a pool of the given length; L is the limit the
\* source names before taking the minimum with the pool's length.
search(branch, pool, length, L, step) ==
  [branch |-> branch, probe |-> 0 - 1, pool |-> pool, length |-> length,
   L |-> L, step |-> step, evaluated |-> visited(length, step)]

frequencyProbeGuessPlan(n, allLen, round) ==
  IF round < 5 /\ n > 100 THEN noSearch("probe", round)
  ELSE IF n <= 2 THEN noSearch("direct", 0 - 1)
  ELSE LET limit == Min2(n, 500)
       IN  search("probe-fallback", "candidates", n, 500, stride(n, limit))

\* A plausible slip: the full code space searched up to 1000 candidates.
entropyPoolWide(n) == IF n <= 1000 THEN "allCodes" ELSE "candidates"

\* const searchPool = n <= 500 ? allCodes : candidates
entropyPool(n) == IF n <= 500 THEN "allCodes" ELSE "candidates"

maxEntropyGuessPlan(n, allLen, round) ==
  IF n <= 2 THEN noSearch("direct", 0 - 1)
  ELSE LET pool == entropyPool(n)
           length == IF pool = "allCodes" THEN allLen ELSE n
           L == IF n <= 200 THEN 5000 ELSE 2000
           limit == Min2(length, L)
       IN  search("entropy", pool, length, L, stride(length, limit))

minimaxGuessPlan(n, allLen, round) ==
  IF n <= 2 THEN noSearch("direct", 0 - 1)
  ELSE LET pool == IF n <= 50 THEN "allCodes" ELSE "candidates"
           length == IF pool = "allCodes" THEN allLen ELSE n
           L == IF n <= 50 THEN 5000 ELSE 2000
           limit == Min2(length, L)
       IN  search("minimax", pool, length, L, stride(length, limit))

hybridGuessPlan(n, allLen, round) ==
  IF round < 3 /\ n > 5000 THEN noSearch("probe", round)
  ELSE IF n <= 200 THEN minimaxGuessPlan(n, allLen, round)
  ELSE maxEntropyGuessPlan(n, allLen, round)

getSmartGuessPlan(n, allLen, round) ==
  IF n <= 1 THEN noSearch("direct", 0 - 1)
  ELSE IF n = 2 THEN noSearch("direct", 0 - 1)
  ELSE IF round < 3 /\ n > 5000 THEN noSearch("probe", round)
  ELSE IF n <= 200
  THEN LET pool == IF n <= 50 THEN "allCodes" ELSE "candidates"
           length == IF pool = "allCodes" THEN allLen ELSE n
           L == IF n <= 50 THEN 10000 ELSE 5000
           limit == Min2(length, L)
       IN  search("minimax", pool, length, L, stride(length, limit))
  ELSE IF n <= 1000
  THEN LET pool == entropyPool(n)
           length == IF pool = "allCodes" THEN allLen ELSE n
           limit == Min2(length, 3000)
       IN  search("entropy", pool, length, 3000, stride(length, limit))
  ELSE search("entropy", "candidates", n, 2000, stride(n, 2000))

planOf(name, n, allLen, round) ==
  CASE name = "frequencyProbeGuess" -> frequencyProbeGuessPlan(n, allLen, round)
    [] name = "maxEntropyGuess" -> maxEntropyGuessPlan(n, allLen, round)
    [] name = "minimaxGuess" -> minimaxGuessPlan(n, allLen, round)
    [] name = "hybridGuess" -> hybridGuessPlan(n, allLen, round)
    [] name = "getSmartGuess" -> getSmartGuessPlan(n, allLen, round)

\* Lengths of candidate lists on both sides of every threshold of the
\* source, and between once and twice each evaluation limit.
PlanSizes ==
  { 0, 1, 2, 3, 50, 51, 100, 101, 200, 201, 500, 501, 750, 999, 1000, 1001,
    1999, 2000, 2001, 3000, 3999, 4000, 5000, 5001, 7500, 9999, 10000 }

\* The strategies are called with the codes of generateAllCodes.
PlanAllLens == { NumSourceCodes }

InitPlan ==
  /\ fnOp \in StrategyFunctions
  /\ fnArgs \in PlanSizes \X PlanAllLens \X (0..MaxRound)
  /\ fnArgs[1] <= fnArgs[2]
  /\ fnDone = FALSE
  /\ fnResult = Undefined

CallPlan ==
  /\ fnOp \in StrategyFunctions /\ ~fnDone
  /\ fnResult' = planOf(fnOp, fnArgs[1], fnArgs[2], fnArgs[3])
  /\ fnDone' = TRUE
  /\ UNCHANGED << fnOp, fnArgs >>
  /\ UNCHANGED notFn

NextPlan == CallPlan

InitPlanSpec ==
  /\ InitPlan /\ GameIdle /\ AiIdle /\ BenchIdle /\ GenIdle
  /\ SampleIdle /\ TwoIdle

SpecPlan == InitPlanSpec /\ [][NextPlan]_vars

\* ------------------------------------------------------------------- C26
\* The two implementations of the hybrid strategy.
HybridFunctions == { "hybridGuess", "getSmartGuess" }

\* The dispatch of a finished hybrid call on at least three candidates,
\* with the full code space searched up to fullSpaceUpTo candidates.
hybridDispatch(fullSpaceUpTo) ==
  (fnDone /\ fnOp \in HybridFunctions /\ fnArgs[1] >= 3) =>
    LET n == fnArgs[1]
        r == fnArgs[3]
    IN  IF r <= 2 /\ n > 5000
        THEN fnResult.branch = "probe" /\ fnResult.probe = r
        ELSE IF n <= 200 THEN fnResult.branch = "minimax"
        ELSE IF n <= fullSpaceUpTo
        THEN fnResult.branch = "entropy" /\ fnResult.pool = "allCodes"
        ELSE fnResult.branch = "entropy" /\ fnResult.pool = "candidates"

\* C26 as stated: probe number r when r <= 2 and n > 5000; otherwise
\* minimax when n <= 200; otherwise maximum-entropy search over the full
\* code space when 200 < n <= 1000; otherwise maximum-entropy search over
\* the candidate set only.
C26_FullSpaceUpTo1000 == hybridDispatch(1000)

\* C26, amended: the hybrid strategy dispatches, for a candidate pool of
\* size n >= 3 at round r: structured probe number r when r <= 2 and
\* n > 5000; otherwise minimax when n <= 200; otherwise maximum-entropy
\* search over the full code space when 200 < n <= 500; otherwise
\* maximum-entropy search over the candidate set only when n > 500.
C26_FullSpaceUpTo500 == hybridDispatch(500)

\* Both implementations have searched the candidate set, by entropy, for a
\* pool between 500 and 1000: here hybridGuess on 750 candidates.
C26_Witness ==
  /\ fnDone /\ fnOp = "hybridGuess" /\ fnArgs[1] = 750
  /\ fnResult.branch = "entropy" /\ fnResult.pool = "candidates"

\* ------------------------------------------- hybridGuess and getSmartGuess
\* The two implementations of the hybrid strategy called with the same
\* arguments: the candidate lists of the strategies' calls over the modelled
\* code space, and a candidate list of a game over the codes of the source.

\* The rounds of the benchmark's hybrid game with target 0011, up to the
\* round that leaves 18 candidates.
SourceGameTarget == <<0, 0, 1, 1>>

SourceGameGuesses ==
  << <<0, 1, 2, 3>>, <<0, 1, 4, 5>>, <<1, 2, 4, 6>>, <<0, 1, 7, 8>>,
     <<0, 2, 5, 7>>, <<0, 0, 0, 1>> >>

\* candidates = filterCandidates(candidates, guess, feedback), round by
\* round.
RECURSIVE candidatesAfter(_, _, _)
candidatesAfter(candidates, guesses, target) ==
  IF guesses = << >> THEN candidates
  ELSE candidatesAfter(
         filterCandidates(candidates, Head(guesses),
                          computeFeedback(Head(guesses), target)),
         Tail(guesses), target)

InitSame ==
  /\ fnOp = "hybridGuess, getSmartGuess"
  /\ \/ fnArgs \in StrategyInputs \X { AllCodes } \X (0..MaxRound)
     \/ \E c \in { candidatesAfter(SourceCodes, SourceGameGuesses,
                                   SourceGameTarget) } :
          fnArgs = << c, SourceCodes, Len(SourceGameGuesses) >>
  /\ fnDone = FALSE
  /\ fnResult = Undefined

CallBoth ==
  /\ fnOp = "hybridGuess, getSmartGuess" /\ ~fnDone
  /\ fnResult' =
       [hybridGuess |-> hybridGuess(fnArgs[1], fnArgs[2], fnArgs[3]),
        getSmartGuess |->
          getSmartGuess(fnArgs[1], fnArgs[2], fnArgs[3], << >>).guess]
  /\ fnDone' = TRUE
  /\ UNCHANGED << fnOp, fnArgs >>
  /\ UNCHANGED notFn

NextSame == CallBoth

InitSameSpec ==
  /\ InitSame /\ GameIdle /\ AiIdle /\ BenchIdle /\ GenIdle
  /\ SampleIdle /\ TwoIdle

SpecSame == InitSameSpec /\ [][NextSame]_vars

\* ------------------------------------------------------------------- C27
\* C27: for every candidate set, full code space and round index,
\* hybridGuess returns the same guess as getSmartGuess(...).guess.
C27_SameGuess ==
  (fnDone /\ fnOp = "hybridGuess, getSmartGuess") =>
    fnResult.hybridGuess = fnResult.getSmartGuess

\* ------------------------------------------------------------------- C28
\* The largest feedback partition of a guess over the candidates.
worstOf(guess, candidates) ==
  worstPartition(computePartitions(guess, candidates))

\* The guesses a minimax search evaluates, given its plan.
evaluatedGuesses(plan, candidates, allCodes) ==
  LET searchPool == IF plan.pool = "allCodes" THEN allCodes ELSE candidates
  IN  { searchPool[i + 1] : i \in plan.evaluated }

\* The returned guess attains the smallest largest partition among the
\* evaluated guesses, and is a candidate whenever an evaluated candidate
\* attains it.
minimaxChoice(guess, evaluated, candidates) ==
  LET worsts == [g \in evaluated |-> worstOf(g, candidates)]
      least == CHOOSE m \in { worsts[g] : g \in evaluated } :
                 \A g \in evaluated : m <= worsts[g]
  IN  /\ worstOf(guess, candidates) = least
      /\ (\E g \in evaluated :
            worsts[g] = least /\ isCandidate(candidates, g))
           => isCandidate(candidates, guess)

\* C28: for a candidate set of size >= 3, the minimax search (of
\* minimaxGuess, reached through hybridGuess, and of getSmartGuess) returns
\* a guess whose largest feedback partition over the candidate set is the
\* minimum among all guesses it evaluated, and that is a member of the
\* candidate set whenever an evaluated guess attaining that minimum is one.
C28_MinimaxChoice ==
  (fnDone /\ fnOp = "hybridGuess, getSmartGuess" /\ Len(fnArgs[1]) >= 3) =>
    LET candidates == fnArgs[1]
        allCodes == fnArgs[2]
        n == Len(candidates)
    IN  /\ minimaxChoice(fnResult.hybridGuess,
             evaluatedGuesses(minimaxGuessPlan(n, Len(allCodes), fnArgs[3]),
                              candidates, allCodes),
             candidates)
        /\ minimaxChoice(fnResult.getSmartGuess,
             evaluatedGuesses(getSmartGuessPlan(n, Len(allCodes), fnArgs[3]),
                              candidates, allCodes),
             candidates)

\* The tie-break has acted: in the game over the codes of the source, a
\* code outside the 18 candidates attains the least worst partition, and
\* both searches return a candidate.
C28_Witness ==
  /\ fnDone /\ fnOp = "hybridGuess, getSmartGuess" /\ Len(fnArgs[1]) = 18
  /\ isCandidate(fnArgs[1], fnResult.hybridGuess)
  /\ isCandidate(fnArgs[1], fnResult.getSmartGuess)
  /\ \E g \in { fnArgs[2][2 * k + 1] : k \in 0..60 } :
       /\ ~isCandidate(fnArgs[1], g)
       /\ worstOf(g, fnArgs[1]) = worstOf(fnResult.hybridGuess, fnArgs[1])

\* ------------------------------------------------------------------- C29
\* The branches that run a strided search.
StridedBranches == { "probe-fallback", "entropy", "minimax" }

\* The indices 0, s, 2 * s, ... of a pool of the given length.
everyNth(length, s) == { k * s : k \in 0..length } \cap 0..(length - 1)

\* A finished call that ran a strided search evaluated the pool elements
\* at indices 0, stride, 2 * stride, ... with
\* stride = max(1, floor(poolSize / L)), and no more than most * L of
\* them (fewer than that if strictly).
stridedSearch(most, strictly) ==
  (fnDone /\ fnOp \in StrategyFunctions
          /\ fnResult.branch \in StridedBranches) =>
    LET poolSize == fnResult.length
        L == fnResult.L
        s == IF poolSize \div L > 1 THEN poolSize \div L ELSE 1
        count == Cardinality(fnResult.evaluated)
    IN  /\ fnResult.evaluated = everyNth(poolSize, s)
        /\ IF strictly THEN count < most * L ELSE count <= most * L

\* C29 as stated: in every strided search (probe fallback, entropy,
\* minimax) with per-phase evaluation limit L, the guesses evaluated are
\* exactly the pool elements at indices 0, stride, 2 * stride, ... with
\* stride = max(1, floor(poolSize / L)), and their number never exceeds L.
C29_AtMostL == stridedSearch(1, FALSE)

\* C29, amended: in every strided search with per-phase evaluation limit
\* L, the guesses evaluated are exactly the pool elements at indices 0,
\* stride, 2 * stride, ... with stride = max(1, floor(poolSize / L)), and
\* their number is always less than 2 * L.
C29_LessThanTwiceL == stridedSearch(2, TRUE)

\* A search has evaluated more guesses than its limit: hybridGuess on 3999
\* candidates evaluates each of them, one short of twice the limit of 2000.
C29_Witness ==
  /\ fnDone /\ fnOp = "hybridGuess" /\ fnArgs[1] = 3999
  /\ fnResult.branch = "entropy" /\ fnResult.L = 2000
  /\ Cardinality(fnResult.evaluated) = 3999

\* ------------------------------------------------------------------- C30
\* The orders of n rounds.
orders(n) ==
  { p \in [1..n -> 1..n] : \A i, j \in 1..n : p[i] = p[j] => i = j }

\* The rounds of a history in the order p.
arranged(history, p) == [i \in 1..Len(history) |-> history[p[i]]]

\* No two rounds with feedback guess the same all-same-digit code and carry
\* different feedbacks.
agreeing(history) ==
  \A i, j \in 1..Len(history) :
    (/\ history[i].feedback # NullValue /\ history[j].feedback # NullValue
     /\ isMonochromatic(history[i].guess)
     /\ history[i].guess = history[j].guess)
      => history[i].feedback = history[j].feedback

\* analyzeKnowledge has returned the same KnowledgeState as for every other
\* order of the rounds.
sameInAnyOrder(history) ==
  \A p \in orders(Len(history)) :
    analyzeKnowledge(arranged(history, p)) = fnResult

\* C30 as stated: analyzeKnowledge is order-independent: for every history,
\* evaluating it on the same rounds arranged in any other order yields the
\* same KnowledgeState.
C30_OrderIndependent ==
  (fnDone /\ fnOp = "analyzeKnowledge") => sameInAnyOrder(fnArgs[1])

\* C30, amended: for every history in which the rounds that guess the same
\* all-same-digit code carry the same feedback, evaluating analyzeKnowledge
\* on the same rounds arranged in any other order yields the same
\* KnowledgeState.
C30_OrderIndependentAgreeing ==
  (fnDone /\ fnOp = "analyzeKnowledge" /\ agreeing(fnArgs[1])) =>
    sameInAnyOrder(fnArgs[1])

\* Three different rounds, one of them without feedback and two of them
\* confirming different digits, have been analyzed: the composition is
\* known, as it is in each of their six orders.
C30_Witness ==
  /\ fnDone /\ fnOp = "analyzeKnowledge" /\ Len(fnArgs[1]) = 3
  /\ agreeing(fnArgs[1])
  /\ fnArgs[1][1].feedback = NullValue
  /\ fnArgs[1][2].feedback # NullValue /\ fnArgs[1][3].feedback # NullValue
  /\ fnArgs[1][2].guess # fnArgs[1][3].guess
  /\ isMonochromatic(fnArgs[1][2].guess) /\ isMonochromatic(fnArgs[1][3].guess)
  /\ fnResult.compositionKnown
====
